---- MODULE Spec2Model ----
(***************************************************************************)
(* Model of the OreId engine (src/unnamed/part_000, the TypeScript class   *)
(* OreId; src/src/oreId.js holds older JavaScript versions of the same     *)
(* methods).  The engine is a single-threaded JavaScript program: every    *)
(* async method runs until its next await, and a promise that nobody       *)
(* awaits keeps running as a background task.                              *)
(*                                                                         *)
(* The module holds several specifications over one set of variables:      *)
(*   SpecCtor      the constructor and its duplicate-provider check        *)
(*   SpecEngine    login / sign / signString / discover and the callback   *)
(*                 handlers against one Transit or UAL wallet: busy flag,  *)
(*                 login reconciliation loop, sign routing                 *)
(*   SpecReconcile discovery and permission reconciliation against the     *)
(*                 identity service                                        *)
(*   SpecReconcileCall, SpecReconcileOlder  direct reconcile calls of the  *)
(*                 current and of the older copy                           *)
(*   SpecSession   setupTransitWallet and the access-context cache         *)
(*   SpecEncoding  signing through the identity service                    *)
(*   SpecInit, SpecApi  the newer engine (src/unnamed/part_001)            *)
(*   SpecDiscovery discoverCredentialsInWallet: options and result         *)
(*   SpecClassifier  isUALProvider / isTransitProvider on names            *)
(*   SpecLoginLoop the login path of SpecEngine with fairness              *)
(***************************************************************************)
EXTENDS Integers, Sequences, FiniteSets, TLC

\* ------------------------------------------------------------------------
\* Strings of provider ids and names, as sequences of characters
\* ------------------------------------------------------------------------

\* longest provider id / name enumerated
MaxNameLen == 2

\* most providers per installed list enumerated
MaxInstalled == 1

Alphabet == {"s", "c", "S"}

\* String.prototype.toLowerCase on one character
LowerChar(ch) ==
  CASE ch = "S" -> "s"
    [] OTHER -> ch

toLowerCase(str) == [i \in 1..Len(str) |-> LowerChar(str[i])]

\* String.prototype.includes: needle occurs as a contiguous substring of hay
includes(hay, needle) ==
  \E i \in 0..(Len(hay) - Len(needle)) :
    \A j \in 1..Len(needle) : hay[i + j] = needle[j]

Names == UNION {[1..n -> Alphabet] : n \in 1..MaxNameLen}

NameLists == UNION {[1..n -> Names] : n \in 0..MaxInstalled}

\* Helpers.isNullOrEmpty on a list
isNullOrEmpty(list) == Len(list) = 0

\* ------------------------------------------------------------------------
\* State
\* ------------------------------------------------------------------------

VARIABLES
  \* -- constructor (SpecCtor) --
  optionsValid,         \* options carry appId, apiKey and oreIdUrl
  transitIds,           \* ids of options.eosTransitWalletProviders, in order
  ualNames,             \* names of options.ualProviders, in order
  ctorState,            \* "new" | "constructed" | "threw"
  ctorError,            \* error thrown by the constructor call, or "none"
  rejectedPromise,      \* rejection of the promise the constructor dropped
  operationsStarted,    \* operations started on the constructed instance
  \* -- engine (SpecEngine) --
  cfgServiceKey,        \* options.serviceKey is set
  cfgBusyCallback,      \* options.setBusyCallback is set
  cfgUalInstalled,      \* names (lower case) of options.ualProviders
  isBusy,               \* this.isBusy: "undefined" | "true" | "false"
  cbLog,                \* last values handed to setBusyCallback, oldest first
  cbFirst,              \* first value ever handed to setBusyCallback, or "none"
  fg,                   \* the operation the caller awaits, and its position
  wallet,               \* the Transit wallet object of the operation
  lt,                   \* the live doTransitProviderLogin call of the wallet
  loginCalls,           \* wallet.login calls made by the current login loop
  bgRejected,           \* error of a promise nobody awaits, or "none"
  bgSync,               \* un-awaited updatePermissionsOnLogin: "none" | "running"
  reqs,                 \* identity-service endpoints requested by the operation
  walletCalled,         \* the operation has called into a wallet object
  chainsCached,         \* this.cachedChainNetworks is loaded
  ctxCached,            \* this.transitAccessContexts holds the network's context
  \* -- discovery and reconciliation (SpecReconcile) --
  initialPerms,         \* permission records of the identity account at the start
  serverPerms,          \* permission records the identity service holds
  cachedUser,           \* permissions of localState.user(), "none" before a fetch
  addRequests,          \* add-permission requests issued, in order
  pendingAdds,          \* indices of addRequests the service has not answered
  addFailed,            \* some add-permission request was answered with an error
  rejectedAdds,         \* indices of addRequests the service answered with an error
  walletKeys,           \* keyToAccountMap the wallet's discover() returns
  calls,                \* discover / reconcile calls started
  dr,                   \* the discover call: position, credential index, run
  rc,                   \* the addWalletPermissionstoOreIdAccount call
  \* -- wallet set-up (SpecSession) --
  transitAccessContexts, \* this.transitAccessContexts: network -> context, 0 unset
  contextsCreated,      \* initAccessContext calls made, per network
  walletObjects,        \* wallet objects made by chainContext.initWallet, in order
  sc,                   \* the setupTransitWallet call of each caller
  setupCalls,           \* setupTransitWallet calls started
  \* -- signing through the identity service (SpecEncoding) --
  sg,                   \* the signing operation: what it sent, got and returned
  signOps,              \* signing operations started
  \* -- newer engine: init() and the popup accessor (SpecInit) --
  hasPopupPlugin,       \* options.plugins carries a popup plug-in
  popupPlugin,          \* this._popup: 0 unset, else the init() call that set it
  isInitialized,        \* this._isInitialized
  initsCompleted,       \* init() calls that have set _isInitialized
  ini,                  \* the init() call of each caller
  popupLog,             \* outcomes of the reads of the popup accessor, in order
  popupInits,           \* calls made of the popup plug-in's init
  initOps,              \* init() calls and popup reads started
  \* -- newer engine: callOreIdApi (SpecApi) --
  cfgApiKey,            \* options.apiKey is set
  storedAccessToken,    \* the local state holds an access token
  api,                  \* the callOreIdApi call and its position
  httpRequests,         \* HTTP requests sent
  apiCalls,             \* callOreIdApi calls started
  \* -- discoverCredentialsInWallet (SpecDiscovery) --
  dc,                   \* the discoverCredentialsInWallet call and its position
  \* -- provider classification (SpecClassifier) --
  cls                   \* the last isUALProvider / isTransitProvider answers

ctorVars == <<optionsValid, transitIds, ualNames, ctorState, ctorError,
              rejectedPromise, operationsStarted>>

cfgVars == <<cfgServiceKey, cfgBusyCallback, cfgUalInstalled>>

busyVars == <<isBusy, cbLog, cbFirst>>

engVars == <<cfgVars, busyVars, fg, wallet, lt, loginCalls, bgRejected, bgSync,
             reqs, walletCalled, chainsCached, ctxCached>>

recVars == <<initialPerms, serverPerms, cachedUser, addRequests, pendingAdds,
             addFailed, rejectedAdds, walletKeys, calls, dr, rc>>

sessVars == <<transitAccessContexts, contextsCreated, walletObjects, sc,
              setupCalls>>

encVars == <<sg, signOps>>

initVars == <<hasPopupPlugin, popupPlugin, isInitialized, initsCompleted, ini,
              popupLog, popupInits, initOps>>

apiVars == <<cfgApiKey, storedAccessToken, api, httpRequests, apiCalls>>

dscVars == <<dc>>

clsVars == <<cls>>

vars == <<ctorVars, engVars, recVars, sessVars, encVars, initVars, apiVars,
          dscVars, clsVars>>

\* what the constructor actions leave alone
notCtorVars == <<engVars, recVars, sessVars, encVars, initVars, apiVars,
                dscVars, clsVars>>

\* what the engine actions leave alone
notEngVars == <<ctorVars, recVars, sessVars, encVars, initVars, apiVars,
                dscVars, clsVars>>

\* what the discovery and reconciliation actions leave alone
notRecVars == <<ctorVars, engVars, sessVars, encVars, initVars, apiVars,
                dscVars, clsVars>>

\* what the wallet set-up actions leave alone
notSessVars == <<ctorVars, engVars, recVars, encVars, initVars, apiVars,
                dscVars, clsVars>>

\* what the actions of signing through the identity service leave alone
notEncVars == <<ctorVars, engVars, recVars, sessVars, initVars, apiVars,
                dscVars, clsVars>>

\* what the init() and popup actions leave alone
notInitVars == <<ctorVars, engVars, recVars, sessVars, encVars, apiVars,
                dscVars, clsVars>>

\* what the callOreIdApi actions leave alone
notApiVars == <<ctorVars, engVars, recVars, sessVars, encVars, initVars,
                dscVars, clsVars>>

\* what the discoverCredentialsInWallet actions leave alone
notDscVars == <<ctorVars, engVars, recVars, sessVars, encVars, initVars, apiVars, clsVars>>

\* what the classification actions leave alone
notClsVars == <<ctorVars, engVars, recVars, sessVars, encVars, initVars, apiVars,
                dscVars>>

\* ------------------------------------------------------------------------
\* Constructor and duplicate-provider check
\* ------------------------------------------------------------------------

\* most operations started on one instance that the constructor model follows
MaxStarted == 2

\* the transit ids that contain the name of an installed UAL provider
duplicates(tIds, uNames) ==
  SelectSeq(tIds, LAMBDA transitProvider :
    \E k \in 1..Len(uNames) :
      includes(toLowerCase(transitProvider), toLowerCase(uNames[k])))

\* the body of assertNoDuplicateProviders: "Duplicate" when it throws
assertNoDuplicateProvidersThrows(tIds, uNames) ==
  /\ ~isNullOrEmpty(tIds)
  /\ ~isNullOrEmpty(uNames)
  /\ ~isNullOrEmpty(duplicates(tIds, uNames))

\* assertNoDuplicateProviders is declared async and the constructor does not
\* await it: a throw inside it rejects the returned promise, which is dropped
DuplicateCheckOutcome(tIds, uNames) ==
  IF assertNoDuplicateProvidersThrows(tIds, uNames)
    THEN [thrown |-> "none", rejected |-> "Duplicate"]
    ELSE [thrown |-> "none", rejected |-> "none"]

\* validateOptions throws when a required option is missing
validateOptionsThrows(valid) == ~valid

\* new OreId(options)
Construct ==
  /\ ctorState = "new"
  /\ IF validateOptionsThrows(optionsValid)
       THEN /\ ctorState' = "threw"
            /\ ctorError' = "OptionsInvalid"
            /\ rejectedPromise' = "none"
       ELSE LET out == DuplicateCheckOutcome(transitIds, ualNames) IN
            /\ ctorError' = out.thrown
            /\ rejectedPromise' = out.rejected
            /\ ctorState' = IF out.thrown = "none" THEN "constructed" ELSE "threw"
  /\ UNCHANGED <<optionsValid, transitIds, ualNames, operationsStarted>>
  /\ UNCHANGED notCtorVars

\* the caller holds an instance and starts login / sign / discover on it
StartOperation ==
  /\ ctorState = "constructed"
  /\ operationsStarted < MaxStarted
  /\ operationsStarted' = operationsStarted + 1
  /\ UNCHANGED <<optionsValid, transitIds, ualNames, ctorState, ctorError,
                 rejectedPromise>>
  /\ UNCHANGED notCtorVars

\* ------------------------------------------------------------------------
\* Engine: providers, routing, busy flag
\* ------------------------------------------------------------------------

\* callback values the log keeps (the most recent ones)
CbWindow == 2

Providers == {"custodial", "metro", "google", "scatter", "ledger", "lynx", "relogin"}

\* constants.ts: providersNotImplemented
providersNotImplemented == {"metro"}

\* constants.ts: supportedTransitProviders
supportedTransitProviders == {"scatter", "ledger", "lynx", "metro", "relogin"}

\* constants.ts: supportedUALProviders
supportedUALProviders == {"scatter", "lynx"}

\* constants.ts: transitProviderAttributesData.  The flags of a descriptor
\* are independent: "relogin" stands for a provider that supports discovery
\* and also asks for logout and login to discover.
transitProviderAttributesData ==
  [p \in supportedTransitProviders |->
    [requiresLogin |-> p \in {"scatter", "ledger"},
     supportsDiscovery |-> p \in {"ledger", "relogin"},
     requiresLogoutLoginToDiscover |-> p \in {"scatter", "relogin"},
     defaultDiscoveryPathIndexList |-> IF p = "ledger" THEN <<0, 1>> ELSE <<>>,
     supportsSignArbitrary |-> p \in {"scatter", "lynx"}]]

\* constants.ts: ualProviderAttributesData
ualProviderAttributesData ==
  [p \in supportedUALProviders |-> [supportsSignArbitrary |-> p = "lynx"]]

isCustodial(provider) == provider = "custodial"

isUALProvider(provider) ==
  provider \in supportedUALProviders /\ provider \in cfgUalInstalled

isTransitProvider(provider) ==
  provider \in supportedTransitProviders /\ ~isUALProvider(provider)

canSignString(provider) ==
  IF isUALProvider(provider) THEN ualProviderAttributesData[provider].supportsSignArbitrary
  ELSE IF isTransitProvider(provider)
         THEN transitProviderAttributesData[provider].supportsSignArbitrary
         ELSE FALSE

canDiscover(provider) ==
  IF isUALProvider(provider) THEN FALSE
  ELSE IF isTransitProvider(provider)
         THEN transitProviderAttributesData[provider].supportsDiscovery
         ELSE FALSE

requiresLogoutLoginToDiscover(provider) ==
  IF isTransitProvider(provider)
    THEN transitProviderAttributesData[provider].requiresLogoutLoginToDiscover
    ELSE FALSE

\* <<>> stands for the null the method returns for a non-Transit provider
defaultDiscoveryPathIndexList(provider) ==
  IF isTransitProvider(provider)
    THEN transitProviderAttributesData[provider].defaultDiscoveryPathIndexList
    ELSE <<>>

needsDiscoverToLogin(provider) ==
  ~isNullOrEmpty(defaultDiscoveryPathIndexList(provider))

assertValidProvider(provider) == provider \in DOMAIN transitProviderAttributesData

\* the branch login() takes
loginRoute(provider) ==
  IF provider \in providersNotImplemented THEN "notImplemented"
  ELSE IF isUALProvider(provider) \/ isTransitProvider(provider) THEN "wallet"
  ELSE "oreid"

\* sign() testing the not-implemented set after the other branches
signRoute_NotImplementedLast(provider, signExternalWithOreId) ==
  IF isCustodial(provider) THEN "custodial"
  ELSE IF (isUALProvider(provider) \/ isTransitProvider(provider))
          /\ ~signExternalWithOreId THEN "wallet"
  ELSE IF provider \in providersNotImplemented THEN "noop"
  ELSE "oreid"

\* sign() ignoring signExternalWithOreId
signRoute_IgnoresForce(provider, signExternalWithOreId) ==
  IF provider \in providersNotImplemented THEN "noop"
  ELSE IF isCustodial(provider) THEN "custodial"
  ELSE IF isUALProvider(provider) \/ isTransitProvider(provider) THEN "wallet"
  ELSE "oreid"

\* the branch sign() takes
signRoute(provider, signExternalWithOreId) ==
  IF provider \in providersNotImplemented THEN "noop"
  ELSE IF isCustodial(provider) THEN "custodial"
  ELSE IF (isUALProvider(provider) \/ isTransitProvider(provider))
          /\ ~signExternalWithOreId THEN "wallet"
  ELSE "oreid"

\* the last CbWindow entries of a callback log
Window(log) ==
  IF Len(log) > CbWindow THEN SubSeq(log, Len(log) - CbWindow + 1, Len(log)) ELSE log

BoolStr(b) == IF b THEN "true" ELSE "false"

\* setIsBusy without the comparison: every call notifies
setIsBusy_AlwaysNotifies(value) ==
  [isBusy |-> BoolStr(value),
   cbLog |-> IF cfgBusyCallback THEN Window(Append(cbLog, BoolStr(value)))
             ELSE cbLog,
   cbFirst |-> IF cfgBusyCallback /\ cbFirst = "none" THEN BoolStr(value)
               ELSE cbFirst]

\* setIsBusy(value): the flag, and the callback log, after the call
setIsBusy(value) ==
  IF isBusy # BoolStr(value)
    THEN [isBusy |-> BoolStr(value),
          cbLog |-> IF cfgBusyCallback THEN Window(Append(cbLog, BoolStr(value)))
                    ELSE cbLog,
          cbFirst |-> IF cfgBusyCallback /\ cbFirst = "none" THEN BoolStr(value)
                      ELSE cbFirst]
    ELSE [isBusy |-> isBusy, cbLog |-> cbLog, cbFirst |-> cbFirst]

\* an action's call of setIsBusy(value)
CallSetIsBusy(value) ==
  LET after == setIsBusy(value) IN
  /\ isBusy' = after.isBusy
  /\ cbLog' = after.cbLog
  /\ cbFirst' = after.cbFirst

\* ------------------------------------------------------------------------
\* Engine: wallet objects and the operation record
\* ------------------------------------------------------------------------

\* chainAccount values a caller passes ("none" is null / undefined)
RequestedAccounts == {"none", "rightacct"}

\* accounts a wallet may select at login
WalletAccounts == {"rightacct", "wrongacct"}

\* errors a wallet call may raise; "unknownKey" carries the message
\* 'unknown key (boost::tuples::tuple'
WalletErrors == {"unknownKey", "walletError"}

\* the object chainContext.initWallet returns
FreshWallet ==
  [connected |-> FALSE, authenticated |-> FALSE, inProgress |-> FALSE, auth |-> "none"]

\* keyToAccountMap values a wallet's discover() may return
DiscoveryData ==
  { <<>>,
    << [key |-> "PUB1", index |-> 0,
        accounts |-> << [account |-> "rightacct", authorization |-> "active"] >>] >>,
    << [key |-> "PUB1", index |-> 0,
        accounts |-> << [account |-> "wrongacct", authorization |-> "active"] >>] >>,
    << [key |-> "PUB1", index |-> 0,
        accounts |-> << [account |-> "wrongacct", authorization |-> "owner"] >>],
       [key |-> "PUB2", index |-> 1,
        accounts |-> << [account |-> "rightacct", authorization |-> "owner"],
                        [account |-> "rightacct", authorization |-> "custom"] >>] >> }

\* Array.find: the first position of flags that holds TRUE, 0 if none
FirstIndex(flags) ==
  IF \E i \in 1..Len(flags) : flags[i]
    THEN CHOOSE i \in 1..Len(flags) : flags[i] /\ \A j \in 1..(i - 1) : ~flags[j]
    ELSE 0

\* findAccountInDiscoverData: [found |-> FALSE] stands for null
findAccountInDiscoverData(keyToAccountMap, chainAccount) ==
  LET HasAccount(data) ==
        \E k \in 1..Len(data.accounts) : data.accounts[k].account = chainAccount
      r == FirstIndex([i \in 1..Len(keyToAccountMap) |->
                         HasAccount(keyToAccountMap[i])])
  IN IF r = 0
       THEN [found |-> FALSE, index |-> 0, key |-> "none", authorization |-> "none"]
       ELSE LET result == keyToAccountMap[r]
                IsActive(acct) == acct.authorization = "active"
                active == FirstIndex([i \in 1..Len(result.accounts) |->
                                        IsActive(result.accounts[i])])
            IN [found |-> TRUE, index |-> result.index, key |-> result.key,
                authorization |-> IF active # 0 THEN "active"
                                  ELSE result.accounts[1].authorization]

IdleFg ==
  [op |-> "idle", pc |-> "idle", route |-> "none", path |-> "none",
   provider |-> "none", chainAccount |-> "none",
   signExternalWithOreId |-> FALSE, preventAutoSign |-> FALSE,
   err |-> "none", conn |-> "none", outcome |-> "none", value |-> "none",
   canAutoSign |-> "none", relogin |-> "none", authAfterConnect |-> "none"]

NoLoginTask ==
  [pc |-> "none", retryCount |-> 0, root |-> FALSE,
   provider |-> "none", chainAccount |-> "none", discoveryData |-> <<>>]

\* no un-awaited work of an earlier operation is still running.  A wallet
\* object is created per operation and the un-awaited work of an earlier
\* operation touches only its own wallet object, so a later operation is
\* followed from the point where that work has ended.
Quiescent == fg.pc = "idle" /\ lt.pc = "none" /\ bgSync = "none"

\* the operation ends: the caller's await gets the result or the error
Exit(f, outcome, value) ==
  fg' = [f EXCEPT !.pc = "exit", !.outcome = outcome, !.value = value]

\* the awaited connectTo...Provider call ends with result conn (or "threw")
ConnDone(f, conn, err) ==
  fg' = [f EXCEPT !.pc = "conn_done", !.conn = conn, !.err = err]

\* chainNetworks(): the chain list is requested when it is not cached
ChainRequests == IF chainsCached THEN {} ELSE {"config"}

\* getOrCreateEosTransitAccessContext(): a cached context needs no request
CtxRequests == IF ctxCached THEN {} ELSE ChainRequests

\* ------------------------------------------------------------------------
\* Engine: entry points login / sign / signString / discover
\* ------------------------------------------------------------------------

\* custodialSignWithOreId without the serviceKey check
custodialSignThrows_NoCheck == FALSE

\* custodialSignWithOreId: the serviceKey check throws
custodialSignThrows == ~cfgServiceKey

\* checkIfTrxAutoSignable: the serviceKey check throws
checkIfTrxAutoSignableThrows == ~cfgServiceKey

\* synchronous start of connectToUALProvider / connectToTransitProvider
EnterConnect(f) ==
  IF isUALProvider(f.provider)
    THEN /\ fg' = [f EXCEPT !.pc = "u_net", !.path = "ual"]
         /\ reqs' = ChainRequests
    ELSE /\ fg' = [f EXCEPT !.pc = "t_ctx", !.path = "connect"]
         /\ reqs' = CtxRequests

\* what every entry point leaves alone or resets: the wallet object and the
\* per-operation records start afresh
BeginFrame ==
  /\ Quiescent
  /\ wallet' = FreshWallet
  /\ walletCalled' = FALSE
  /\ loginCalls' = 0
  /\ bgRejected' = "none"
  /\ UNCHANGED <<cfgVars, busyVars, lt, bgSync, chainsCached, ctxCached>>
  /\ UNCHANGED notEngVars

\* login(loginOptions)
Login(provider, chainAccount) ==
  /\ BeginFrame
  /\ LET f == [IdleFg EXCEPT !.op = "login", !.provider = provider,
                             !.chainAccount = chainAccount,
                             !.route = loginRoute(provider)]
     IN CASE f.route = "notImplemented" ->
               Exit(f, "threw", "NotImplemented") /\ reqs' = {}
          [] f.route = "wallet" -> EnterConnect(f)
          [] OTHER -> \* loginWithOreId: getOreIdAuthUrl asks for an app token
               fg' = [f EXCEPT !.pc = "a_token"] /\ reqs' = {"app-token"}

\* sign(signOptions)
Sign(provider, chainAccount, signExternalWithOreId, preventAutoSign) ==
  /\ BeginFrame
  /\ LET f == [IdleFg EXCEPT !.op = "sign", !.provider = provider,
                             !.chainAccount = chainAccount,
                             !.signExternalWithOreId = signExternalWithOreId,
                             !.preventAutoSign = preventAutoSign,
                             !.route = signRoute(provider, signExternalWithOreId)]
     IN CASE f.route = "noop" -> Exit(f, "returned", "null") /\ reqs' = {}
          [] f.route = "custodial" ->
               IF custodialSignThrows
                 THEN Exit(f, "threw", "MissingServiceKey") /\ reqs' = {}
                 ELSE fg' = [f EXCEPT !.pc = "a_custodial"]
                      /\ reqs' = {"custodial/sign"}
          [] f.route = "wallet" -> EnterConnect(f)
          [] OTHER -> \* signWithOreId
               IF checkIfTrxAutoSignableThrows
                 THEN fg' = [f EXCEPT !.pc = "a_token"] /\ reqs' = {"app-token"}
                 ELSE fg' = [f EXCEPT !.pc = "a_canAutoSign"]
                      /\ reqs' = {"transaction/can-auto-sign"}

\* signString(signOptions)
SignString(provider, chainAccount) ==
  /\ BeginFrame
  /\ LET f == [IdleFg EXCEPT !.op = "signString", !.provider = provider,
                             !.chainAccount = chainAccount, !.route = "wallet"]
     IN IF ~canSignString(provider)
          THEN Exit(f, "threw", "UnsupportedSignString") /\ reqs' = {}
          ELSE EnterConnect(f)

\* discover(discoverOptions)
Discover(provider) ==
  /\ BeginFrame
  /\ LET f == [IdleFg EXCEPT !.op = "discover", !.provider = provider,
                             !.route = "wallet"]
     IN IF ~assertValidProvider(provider)
          THEN Exit(f, "threw", "InvalidProvider") /\ reqs' = {}
          ELSE /\ fg' = [f EXCEPT !.pc = "t_ctx",
                                  !.path = IF canDiscover(provider)
                                             THEN "discoverCreds"
                                             ELSE "discoverElse"]
               /\ reqs' = CtxRequests

\* the caller takes the result or the error of the finished operation
Observe ==
  /\ fg.pc = "exit"
  /\ fg' = IdleFg
  /\ UNCHANGED <<cfgVars, busyVars, wallet, lt, loginCalls, bgRejected, bgSync,
                 reqs, walletCalled, chainsCached, ctxCached>>
  /\ UNCHANGED notEngVars

\* handleAuthResponse(callbackUrlString): synchronous
HandleAuthResponse ==
  /\ CallSetIsBusy(FALSE)
  /\ UNCHANGED <<cfgVars, fg, wallet, lt, loginCalls, bgRejected, bgSync,
                 reqs, walletCalled, chainsCached, ctxCached>>
  /\ UNCHANGED notEngVars

\* handleSignResponse(callbackUrlString): synchronous
HandleSignResponse ==
  /\ CallSetIsBusy(FALSE)
  /\ UNCHANGED <<cfgVars, fg, wallet, lt, loginCalls, bgRejected, bgSync,
                 reqs, walletCalled, chainsCached, ctxCached>>
  /\ UNCHANGED notEngVars

\* ------------------------------------------------------------------------
\* Engine: setupTransitWallet and waitWhileWalletIsBusy
\* ------------------------------------------------------------------------

\* wallet states in which connect() may resolve
ConnectOutcomes ==
  { w \in [connected : BOOLEAN, authenticated : BOOLEAN, inProgress : BOOLEAN,
           auth : WalletAccounts \cup {"none"}] :
      /\ w.authenticated <=> w.auth # "none"
      /\ w.authenticated => w.connected }

\* setupTransitWallet threw e: connectToTransitProvider and
\* discoverCredentialsInWallet run their finally, discover() has none
SetupFailed(f, e) ==
  CASE f.path = "connect" -> CallSetIsBusy(FALSE) /\ ConnDone(f, "threw", e)
    [] f.path = "discoverCreds" -> CallSetIsBusy(FALSE) /\ Exit(f, "threw", e)
    [] OTHER -> UNCHANGED busyVars /\ Exit(f, "threw", e)

\* getOrCreateEosTransitAccessContext resolves or fails; on success the
\* wallet object is created and connect() is called
SetupContext ==
  /\ fg.pc = "t_ctx"
  /\ \/ /\ chainsCached' = TRUE
        /\ ctxCached' = TRUE
        /\ wallet' = FreshWallet
        /\ walletCalled' = TRUE
        /\ fg' = [fg EXCEPT !.pc = "t_connect"]
        /\ UNCHANGED busyVars
     \/ /\ "config" \in reqs
        /\ SetupFailed(fg, "ApiError")
        /\ UNCHANGED <<chainsCached, ctxCached, wallet, walletCalled>>
  /\ UNCHANGED <<cfgVars, lt, loginCalls, bgRejected, bgSync, reqs>>
  /\ UNCHANGED notEngVars

\* transitWallet.connect() resolves or rejects
SetupConnect ==
  /\ fg.pc = "t_connect"
  /\ \/ /\ \E w \in ConnectOutcomes : wallet' = w
        /\ fg' = [fg EXCEPT !.pc = "t_wait"]
        /\ UNCHANGED busyVars
     \/ /\ SetupFailed(fg, "FailedToConnect")
        /\ UNCHANGED wallet
  /\ UNCHANGED <<cfgVars, lt, loginCalls, bgRejected, bgSync, reqs, walletCalled,
                 chainsCached, ctxCached>>
  /\ UNCHANGED notEngVars

\* a loop test that never sees the wallet in progress
walletIsBusy_Never(transitWallet) == FALSE

\* "while (transitWallet.inProgress)": the loop test of waitWhileWalletIsBusy
walletIsBusy(transitWallet) == transitWallet.inProgress

\* waitWhileWalletIsBusy: one turn of the loop with the wallet in progress
\* (setIsBusy(true), then the 250 ms sleep, back at the loop test)
WaitBusy ==
  /\ fg.pc \in {"t_wait", "l_wait"}
  /\ walletIsBusy(wallet)
  /\ CallSetIsBusy(TRUE)
  /\ UNCHANGED <<cfgVars, fg, wallet, lt, loginCalls, bgRejected, bgSync, reqs,
                 walletCalled, chainsCached, ctxCached>>
  /\ UNCHANGED notEngVars

\* waitWhileWalletIsBusy in setupTransitWallet ends: setIsBusy(false) and
\* the wallet goes back to the caller of setupTransitWallet
SetupWaitIdle ==
  /\ fg.pc = "t_wait"
  /\ ~walletIsBusy(wallet)
  /\ CallSetIsBusy(FALSE)
  /\ fg' = [fg EXCEPT !.pc = CASE fg.path = "connect" -> "c_afterSetup"
                                [] fg.path = "discoverCreds" -> "dc_afterSetup"
                                [] OTHER -> "de_afterSetup"]
  /\ UNCHANGED <<cfgVars, wallet, lt, loginCalls, bgRejected, bgSync, reqs,
                 walletCalled, chainsCached, ctxCached>>
  /\ UNCHANGED notEngVars

\* the wallet reports progress while a login of the loop is outstanding,
\* and stops reporting it at any time
WalletProgress ==
  /\ \/ wallet.inProgress
     \/ lt.pc # "none"
  /\ wallet' = [wallet EXCEPT !.inProgress = ~wallet.inProgress]
  /\ UNCHANGED <<cfgVars, busyVars, fg, lt, loginCalls, bgRejected, bgSync, reqs,
                 walletCalled, chainsCached, ctxCached>>
  /\ UNCHANGED notEngVars

\* ------------------------------------------------------------------------
\* Engine: login reconciliation loop
\* ------------------------------------------------------------------------

\* the retry limit one higher
retryLimitReached_OneMore(retryCount) == retryCount > 3

\* doTransitProviderLogin: "if (retryCount > 2) return"
retryLimitReached(retryCount) == retryCount > 2

\* loginToTransitProvider's catch: the error it throws for a caught one
remapLoginError(e) == IF e = "unknownKey" THEN "WrongChain" ELSE e

\* most wallet.login calls of one loop that are counted
MaxLoginsCounted == 5

\* the count of wallet.login calls after one more call
countLogin(n) == IF n < MaxLoginsCounted THEN n + 1 ELSE n

\* a retry started with the retry count it was given
nextRetryCount_Same(retryCount) == retryCount

\* "retryCount + 1", the count the retry is started with
nextRetryCount(retryCount) == retryCount + 1

\* synchronous start of doTransitProviderLogin(wallet, chainAccount,
\* provider, retryCount): up to its first await, a wallet call
LoginTaskStart(provider, chainAccount, retryCount, root) ==
  IF needsDiscoverToLogin(provider)
    THEN /\ lt' = [pc |-> "discover", retryCount |-> retryCount, root |-> root,
                   provider |-> provider, chainAccount |-> chainAccount,
                   discoveryData |-> <<>>]
         /\ loginCalls' = loginCalls
    ELSE /\ lt' = [pc |-> "login", retryCount |-> retryCount, root |-> root,
                   provider |-> provider, chainAccount |-> chainAccount,
                   discoveryData |-> <<>>]
         /\ loginCalls' = countLogin(loginCalls)

\* the live doTransitProviderLogin call throws e: the awaited one hands it
\* to loginToTransitProvider, an un-awaited one rejects a dropped promise
LoginTaskFails(e) ==
  /\ lt' = NoLoginTask
  /\ IF lt.root
       THEN fg' = [fg EXCEPT !.pc = "l_wait", !.err = remapLoginError(e)]
            /\ UNCHANGED bgRejected
       ELSE bgRejected' = e /\ UNCHANGED fg

\* the live doTransitProviderLogin call returns
LoginTaskReturns ==
  /\ lt' = NoLoginTask
  /\ IF lt.root THEN fg' = [fg EXCEPT !.pc = "l_wait"] ELSE UNCHANGED fg

\* the login test with the wallet's authenticated flag left out
loginNeeded_IgnoresAuthenticated(provider, authenticated) ==
  transitProviderAttributesData[provider].requiresLogin

\* "if (transitProviderAttributesData[provider].requiresLogin)
\*    if (!transitWallet.authenticated)"
loginNeeded(provider, authenticated) ==
  transitProviderAttributesData[provider].requiresLogin /\ ~authenticated

\* connectToTransitProvider after setupTransitWallet; authAfterConnect
\* keeps what the wallet's authenticated flag was at this point
ConnectAfterSetup ==
  /\ fg.pc = "c_afterSetup"
  /\ LET seen == IF wallet.authenticated THEN "yes" ELSE "no" IN
     IF loginNeeded(fg.provider, wallet.authenticated)
       THEN /\ LoginTaskStart(fg.provider, fg.chainAccount, 0, TRUE)
            /\ fg' = [fg EXCEPT !.pc = "l_await", !.authAfterConnect = seen]
       ELSE /\ fg' = [fg EXCEPT !.pc = "c_check", !.authAfterConnect = seen]
            /\ UNCHANGED <<lt, loginCalls>>
  /\ UNCHANGED <<cfgVars, busyVars, wallet, bgRejected, bgSync, reqs, walletCalled,
                 chainsCached, ctxCached>>
  /\ UNCHANGED notEngVars

\* the wallet resolves the loop's discover() with a key map
WalletDiscoverResolves ==
  /\ lt.pc = "discover"
  /\ \E data \in DiscoveryData :
       lt' = [lt EXCEPT !.pc = "discovered", !.discoveryData = data]
  /\ UNCHANGED <<cfgVars, busyVars, fg, wallet, loginCalls, bgRejected, bgSync,
                 reqs, walletCalled, chainsCached, ctxCached>>
  /\ UNCHANGED notEngVars

\* doTransitProviderLogin resumes after "await transitWallet.discover()":
\* with the key map the wallet resolved, or with the wallet's rejection
LoginDiscoverReturns ==
  /\ \/ /\ lt.pc = "discovered"
        /\ LET foundData == findAccountInDiscoverData(lt.discoveryData,
                                                      lt.chainAccount) IN
           IF foundData.found
             THEN /\ lt' = [lt EXCEPT !.pc = "login", !.discoveryData = <<>>]
                  /\ loginCalls' = countLogin(loginCalls)
                  /\ UNCHANGED <<fg, bgRejected>>
             ELSE /\ LoginTaskFails("AccountNotFound")
                  /\ UNCHANGED loginCalls
     \/ /\ lt.pc = "discover"
        /\ \E e \in WalletErrors :
             LoginTaskFails(e) /\ UNCHANGED loginCalls
  /\ UNCHANGED <<cfgVars, busyVars, wallet, bgSync, reqs, walletCalled,
                 chainsCached, ctxCached>>
  /\ UNCHANGED notEngVars

\* the mismatch test with the wallet's account left out
accountMismatch_AnyRequest(chainAccount, transitAccountName) ==
  chainAccount # "none"

\* "if (chainAccount && transitAccountName !== chainAccount)"
accountMismatch(chainAccount, transitAccountName) ==
  chainAccount # "none" /\ transitAccountName # chainAccount

\* transitWallet.login() of the loop resolves with an account or rejects
LoginReturns ==
  /\ lt.pc = "login"
  /\ \/ \E acct \in WalletAccounts :
          /\ wallet' = [wallet EXCEPT !.connected = TRUE, !.authenticated = TRUE,
                                      !.auth = acct]
          /\ IF retryLimitReached(lt.retryCount)
               THEN LoginTaskReturns
               ELSE IF accountMismatch(lt.chainAccount, acct)
                      THEN lt' = [lt EXCEPT !.pc = "logout"] /\ UNCHANGED fg
                      ELSE LoginTaskReturns
          /\ UNCHANGED bgRejected
     \/ \E e \in WalletErrors :
          LoginTaskFails(e) /\ UNCHANGED wallet
  /\ UNCHANGED <<cfgVars, busyVars, loginCalls, bgSync, reqs, walletCalled,
                 chainsCached, ctxCached>>
  /\ UNCHANGED notEngVars

\* transitWallet.logout() of the loop resolves: the retry is started and
\* not awaited, and the current call returns
LoginLogoutReturns ==
  /\ lt.pc = "logout"
  /\ wallet' = [wallet EXCEPT !.authenticated = FALSE, !.auth = "none"]
  /\ LoginTaskStart(lt.provider, lt.chainAccount, nextRetryCount(lt.retryCount),
                    FALSE)
  /\ IF lt.root THEN fg' = [fg EXCEPT !.pc = "l_wait"] ELSE UNCHANGED fg
  /\ UNCHANGED <<cfgVars, busyVars, bgRejected, bgSync, reqs, walletCalled,
                 chainsCached, ctxCached>>
  /\ UNCHANGED notEngVars

\* waitWhileWalletIsBusy in loginToTransitProvider's finally ends; the
\* caught error, if any, is thrown on into connectToTransitProvider, whose
\* finally calls setIsBusy(false)
LoginWaitIdle ==
  /\ fg.pc = "l_wait"
  /\ ~walletIsBusy(wallet)
  /\ CallSetIsBusy(FALSE)
  /\ IF fg.err # "none"
       THEN ConnDone(fg, "threw", fg.err)
       ELSE fg' = [fg EXCEPT !.pc = "c_check"]
  /\ UNCHANGED <<cfgVars, wallet, lt, loginCalls, bgRejected, bgSync, reqs,
                 walletCalled, chainsCached, ctxCached>>
  /\ UNCHANGED notEngVars

\* ------------------------------------------------------------------------
\* Engine: connectToTransitProvider after the login phase
\* ------------------------------------------------------------------------

\* the result connectToTransitProvider builds from the wallet
connectResponse(w) == IF w.authenticated THEN "loggedIn" ELSE "walletOnly"

\* "if (transitWallet.connected)": updatePermissionsOnLogin reads
\* transitWallet.auth (a TypeError when the wallet has none) and, when the
\* local state names an identity account, requests its user record
ConnectCheck ==
  /\ fg.pc = "c_check"
  /\ IF wallet.connected
       THEN IF wallet.auth = "none"
              THEN /\ CallSetIsBusy(FALSE)
                   /\ ConnDone(fg, "threw", "TypeError")
                   /\ UNCHANGED reqs
              ELSE /\ fg' = [fg EXCEPT !.pc = "c_sync"]
                   /\ \E oreAcct \in BOOLEAN :
                        reqs' = IF oreAcct THEN reqs \cup {"account/user"} ELSE reqs
                   /\ UNCHANGED busyVars
       ELSE /\ CallSetIsBusy(FALSE)
            /\ ConnDone(fg, "threw", "NotConnected")
            /\ UNCHANGED reqs
  /\ UNCHANGED <<cfgVars, wallet, lt, loginCalls, bgRejected, bgSync, walletCalled,
                 chainsCached, ctxCached>>
  /\ UNCHANGED notEngVars

\* the awaited updatePermissionsOnLogin ends; the result is built from the
\* wallet as it is then, and the finally calls setIsBusy(false)
ConnectSyncReturns ==
  /\ fg.pc = "c_sync"
  /\ CallSetIsBusy(FALSE)
  /\ \/ ConnDone(fg, connectResponse(wallet), "none")
     \/ /\ "account/user" \in reqs
        /\ ConnDone(fg, "threw", "ApiError")
  /\ UNCHANGED <<cfgVars, wallet, lt, loginCalls, bgRejected, bgSync, reqs,
                 walletCalled, chainsCached, ctxCached>>
  /\ UNCHANGED notEngVars

\* the caller of connectTo...Provider resumes: login returns the result;
\* the sign methods take the wallet out of it, call setIsBusy(true) and the
\* wallet's sign primitive
ConnectReturns ==
  /\ fg.pc = "conn_done"
  /\ IF fg.conn = "threw"
       THEN Exit(fg, "threw", fg.err) /\ UNCHANGED <<busyVars, walletCalled>>
       ELSE IF fg.op = "login"
              THEN Exit(fg, "returned", fg.conn) /\ UNCHANGED <<busyVars, walletCalled>>
              ELSE IF fg.conn = "null"
                     THEN Exit(fg, "threw", "TypeError")
                          /\ UNCHANGED <<busyVars, walletCalled>>
                     ELSE /\ CallSetIsBusy(TRUE)
                          /\ walletCalled' = TRUE
                          /\ fg' = [fg EXCEPT !.pc = "s_wallet"]
  /\ UNCHANGED <<cfgVars, wallet, lt, loginCalls, bgRejected, bgSync, reqs,
                 chainsCached, ctxCached>>
  /\ UNCHANGED notEngVars

\* the wallet's sign primitive resolves or rejects; finally setIsBusy(false)
WalletSignReturns ==
  /\ fg.pc = "s_wallet"
  /\ CallSetIsBusy(FALSE)
  /\ \/ Exit(fg, "returned", "signed")
     \/ Exit(fg, "threw", "walletError")
  /\ UNCHANGED <<cfgVars, wallet, lt, loginCalls, bgRejected, bgSync, reqs,
                 walletCalled, chainsCached, ctxCached>>
  /\ UNCHANGED notEngVars

\* ------------------------------------------------------------------------
\* Engine: connectToUALProvider
\* ------------------------------------------------------------------------

\* getNetworkConfig resolves or fails; on success wallet.init() is called
UalNetwork ==
  /\ fg.pc = "u_net"
  /\ \/ /\ chainsCached' = TRUE
        /\ walletCalled' = TRUE
        /\ fg' = [fg EXCEPT !.pc = "u_init"]
     \/ /\ "config" \in reqs
        /\ ConnDone(fg, "threw", "ApiError")
        /\ UNCHANGED <<chainsCached, walletCalled>>
  /\ UNCHANGED <<cfgVars, busyVars, wallet, lt, loginCalls, bgRejected, bgSync,
                 reqs, ctxCached>>
  /\ UNCHANGED notEngVars

\* wallet.init() resolves (wallet.login is called) or rejects
UalInit ==
  /\ fg.pc = "u_init"
  /\ \/ fg' = [fg EXCEPT !.pc = "u_login"]
     \/ ConnDone(fg, "threw", "walletError")
  /\ UNCHANGED <<cfgVars, busyVars, wallet, lt, loginCalls, bgRejected, bgSync,
                 reqs, walletCalled, chainsCached, ctxCached>>
  /\ UNCHANGED notEngVars

\* loginToUALProvider: wallet.login resolves with no user, with a user
\* (updatePermissionsIfNecessary follows) or rejects
UalLogin ==
  /\ fg.pc = "u_login"
  /\ \/ ConnDone(fg, "null", "none") /\ UNCHANGED reqs
     \/ /\ fg' = [fg EXCEPT !.pc = "u_sync"]
        /\ \E oreAcct \in BOOLEAN :
             reqs' = IF oreAcct THEN reqs \cup {"account/user"} ELSE reqs
     \/ \E e \in WalletErrors :
          ConnDone(fg, "threw", remapLoginError(e)) /\ UNCHANGED reqs
  /\ UNCHANGED <<cfgVars, busyVars, wallet, lt, loginCalls, bgRejected, bgSync,
                 walletCalled, chainsCached, ctxCached>>
  /\ UNCHANGED notEngVars

\* the awaited updatePermissionsIfNecessary ends
UalSyncReturns ==
  /\ fg.pc = "u_sync"
  /\ \/ ConnDone(fg, "loggedIn", "none")
     \/ /\ "account/user" \in reqs
        /\ ConnDone(fg, "threw", "ApiError")
  /\ UNCHANGED <<cfgVars, busyVars, wallet, lt, loginCalls, bgRejected, bgSync,
                 reqs, walletCalled, chainsCached, ctxCached>>
  /\ UNCHANGED notEngVars

\* ------------------------------------------------------------------------
\* Engine: discover
\* ------------------------------------------------------------------------

\* discoverCredentialsInWallet after setupTransitWallet: setIsBusy(true),
\* then transitWallet.discover()
DiscoverCredsAfterSetup ==
  /\ fg.pc = "dc_afterSetup"
  /\ CallSetIsBusy(TRUE)
  /\ fg' = [fg EXCEPT !.pc = "dc_discover"]
  /\ UNCHANGED <<cfgVars, wallet, lt, loginCalls, bgRejected, bgSync, reqs,
                 walletCalled, chainsCached, ctxCached>>
  /\ UNCHANGED notEngVars

\* transitWallet.discover() resolves: the credentials are reconciled (user
\* record requests) or there is nothing to reconcile; or it rejects
DiscoverCredsReturns ==
  /\ fg.pc = "dc_discover"
  /\ \/ /\ fg' = [fg EXCEPT !.pc = "dc_reconcile"]
        /\ reqs' = reqs \cup {"account/user"}
        /\ UNCHANGED busyVars
     \/ /\ CallSetIsBusy(FALSE)
        /\ Exit(fg, "returned", "credentials")
        /\ UNCHANGED reqs
     \/ /\ CallSetIsBusy(FALSE)
        /\ Exit(fg, "threw", "walletError")
        /\ UNCHANGED reqs
  /\ UNCHANGED <<cfgVars, wallet, lt, loginCalls, bgRejected, bgSync,
                 walletCalled, chainsCached, ctxCached>>
  /\ UNCHANGED notEngVars

\* the reconciliation of the discovered credentials ends or fails; the
\* finally calls setIsBusy(false)
DiscoverCredsReconciled ==
  /\ fg.pc = "dc_reconcile"
  /\ CallSetIsBusy(FALSE)
  /\ \/ Exit(fg, "returned", "credentials")
     \/ Exit(fg, "threw", "ApiError")
  /\ UNCHANGED <<cfgVars, wallet, lt, loginCalls, bgRejected, bgSync, reqs,
                 walletCalled, chainsCached, ctxCached>>
  /\ UNCHANGED notEngVars

\* discover() for a provider that cannot discover, after setupTransitWallet
DiscoverElseAfterSetup ==
  /\ fg.pc = "de_afterSetup"
  /\ IF requiresLogoutLoginToDiscover(fg.provider)
       THEN fg' = [fg EXCEPT !.pc = "de_logout"]
       ELSE Exit(fg, "returned", "null")
  /\ UNCHANGED <<cfgVars, busyVars, wallet, lt, loginCalls, bgRejected, bgSync,
                 reqs, walletCalled, chainsCached, ctxCached>>
  /\ UNCHANGED notEngVars

\* transitWallet.logout() resolves; transitWallet.login() is called
DiscoverElseLogoutReturns ==
  /\ fg.pc = "de_logout"
  /\ wallet' = [wallet EXCEPT !.authenticated = FALSE, !.auth = "none"]
  /\ fg' = [fg EXCEPT !.pc = "de_login", !.relogin = "loggedOut"]
  /\ UNCHANGED <<cfgVars, busyVars, lt, loginCalls, bgRejected, bgSync, reqs,
                 walletCalled, chainsCached, ctxCached>>
  /\ UNCHANGED notEngVars

\* transitWallet.login() resolves: updatePermissionsOnLogin is started and
\* not awaited, and discover returns its null result; or it rejects
DiscoverElseLoginReturns ==
  /\ fg.pc = "de_login"
  /\ \/ /\ \E acct \in WalletAccounts :
             wallet' = [wallet EXCEPT !.connected = TRUE, !.authenticated = TRUE,
                                      !.auth = acct]
        /\ \E oreAcct \in BOOLEAN :
             /\ bgSync' = IF oreAcct THEN "running" ELSE "none"
             /\ reqs' = IF oreAcct THEN reqs \cup {"account/user"} ELSE reqs
        /\ Exit([fg EXCEPT !.relogin = "done"], "returned", "null")
     \/ /\ \E e \in WalletErrors : Exit(fg, "threw", e)
        /\ UNCHANGED <<wallet, bgSync, reqs>>
  /\ UNCHANGED <<cfgVars, busyVars, lt, loginCalls, bgRejected, walletCalled,
                 chainsCached, ctxCached>>
  /\ UNCHANGED notEngVars

\* the un-awaited updatePermissionsOnLogin ends, or rejects a dropped promise
BackgroundSyncEnds ==
  /\ bgSync = "running"
  /\ bgSync' = "none"
  /\ \/ UNCHANGED bgRejected
     \/ bgRejected' = "ApiError"
  /\ UNCHANGED <<cfgVars, busyVars, fg, wallet, lt, loginCalls, reqs,
                 walletCalled, chainsCached, ctxCached>>
  /\ UNCHANGED notEngVars

\* ------------------------------------------------------------------------
\* Engine: identity-service paths of login and sign
\* ------------------------------------------------------------------------

\* callSignTransaction(custodial/sign) resolves or fails
CustodialSignReturns ==
  /\ fg.pc = "a_custodial"
  /\ \/ Exit(fg, "returned", "signedByService")
     \/ Exit(fg, "threw", "ApiError")
  /\ UNCHANGED <<cfgVars, busyVars, wallet, lt, loginCalls, bgRejected, bgSync,
                 reqs, walletCalled, chainsCached, ctxCached>>
  /\ UNCHANGED notEngVars

\* signWithOreId ignoring the caller's preventAutoSign
autoSignChosen_IgnoresOptOut(canAutoSign, preventAutoSign) == canAutoSign

\* signWithOreId: "if (canAutoSign && !preventAutoSign)"
autoSignChosen(canAutoSign, preventAutoSign) == canAutoSign /\ ~preventAutoSign

\* signWithOreId: the can-auto-sign request resolves (true / false) or
\* fails, which the catch turns into false
CanAutoSignReturns ==
  /\ fg.pc = "a_canAutoSign"
  /\ \E answer \in {"true", "false", "failed"} :
       IF autoSignChosen(answer = "true", fg.preventAutoSign)
         THEN /\ fg' = [fg EXCEPT !.pc = "a_autoSign", !.canAutoSign = answer]
              /\ reqs' = reqs \cup {"transaction/sign"}
         ELSE /\ fg' = [fg EXCEPT !.pc = "a_token", !.canAutoSign = answer]
              /\ reqs' = reqs \cup {"app-token"}
  /\ UNCHANGED <<cfgVars, busyVars, wallet, lt, loginCalls, bgRejected, bgSync,
                 walletCalled, chainsCached, ctxCached>>
  /\ UNCHANGED notEngVars

\* autoSignTransaction resolves or fails
AutoSignReturns ==
  /\ fg.pc = "a_autoSign"
  /\ \/ Exit(fg, "returned", "autoSigned")
     \/ Exit(fg, "threw", "ApiError")
  /\ UNCHANGED <<cfgVars, busyVars, wallet, lt, loginCalls, bgRejected, bgSync,
                 reqs, walletCalled, chainsCached, ctxCached>>
  /\ UNCHANGED notEngVars

\* getOreIdAuthUrl / getOreIdSignUrl: the app-token request resolves (the
\* url is returned) or fails
TokenReturns ==
  /\ fg.pc = "a_token"
  /\ \/ Exit(fg, "returned", IF fg.op = "login" THEN "loginUrl" ELSE "signUrl")
     \/ Exit(fg, "threw", "ApiError")
  /\ UNCHANGED <<cfgVars, busyVars, wallet, lt, loginCalls, bgRejected, bgSync,
                 reqs, walletCalled, chainsCached, ctxCached>>
  /\ UNCHANGED notEngVars

\* ------------------------------------------------------------------------
\* Discovery and permission reconciliation
\* ------------------------------------------------------------------------

\* most discover / reconcile calls followed
MaxCalls == 2

IdentityAccount == "idacct"

PermissionRecord(chainAccount, chainNetwork, permission) ==
  [chainAccount |-> chainAccount, chainNetwork |-> chainNetwork,
   permission |-> permission]

\* permission lists the identity account may hold at the start
InitialPermissionSets ==
  SUBSET { PermissionRecord("acct1", "eos_main", "active"),
           PermissionRecord("acct2", "eos_main", "custom") }

Candidate(name, publicKey, parent) ==
  [name |-> name, publicKey |-> publicKey, parent |-> parent]

\* walletPermissions lists a caller may pass ("" is a missing parent)
CandidateLists ==
  { <<>>,
    << Candidate("active", "PUB1", "") >>,
    << Candidate("owner", "PUB1", "") >>,
    << Candidate("custom", "PUB1", "owner") >>,
    << Candidate("active", "PUB1", ""), Candidate("custom", "PUB2", "") >>,
    << Candidate("active", "PUB1", ""), Candidate("active", "PUB2", "") >> }

Credential(key, accounts) == [key |-> key, accounts |-> accounts]

Authorization(account, authorization) ==
  [account |-> account, authorization |-> authorization]

\* keyToAccountMap values of the wallet whose keys are discovered
WalletKeyMaps ==
  { <<>>,
    << Credential("PUB1", << Authorization("acct1", "active") >>) >>,
    << Credential("PUB1", << Authorization("acct1", "active") >>),
       Credential("PUB2", << Authorization("acct1", "active") >>) >>,
    << Credential("PUB1", << Authorization("acct1", "owner") >>),
       Credential("PUB2", << Authorization("acct1", "custom"),
                             Authorization("acct1", "active") >>) >>,
    << Credential("PUB1", << >>),
       Credential("PUB2", << Authorization("acct2", "active") >>) >> }

\* the parent permission with the candidate's own parent left out of account
parentPermissionFor_IgnoresOwnParent(p) ==
  IF p.name = "owner" THEN ""
  ELSE IF p.name = "active" THEN "owner"
  ELSE "active"

\* the parent permission sent for candidate p
parentPermissionFor(p) ==
  IF p.parent # "" THEN p.parent
  ELSE IF p.name = "owner" THEN ""
  ELSE IF p.name = "active" THEN "owner"
  ELSE "active"

\* the test matching a stored record on the permission name alone
skipThisPermission_AnyAccount(userPermissions, chainAccount, chainNetwork, permission) ==
  \E up \in userPermissions : up.permission = permission \/ permission = "owner"

\* theUser.permissions.some(up => (up matches) || permission === 'owner'):
\* some() over an empty list is false
skipThisPermission(userPermissions, chainAccount, chainNetwork, permission) ==
  \E up \in userPermissions :
    \/ /\ up.chainAccount = chainAccount
       /\ up.chainNetwork = chainNetwork
       /\ up.permission = permission
    \/ permission = "owner"

\* the addPermission calls the map over walletPermissions starts, in order
addPermissionCalls(userPermissions, chainAccount, chainNetwork, walletPermissions, oreAccount, provider) ==
  LET kept == SelectSeq(walletPermissions, LAMBDA p :
                ~skipThisPermission(userPermissions, chainAccount, chainNetwork,
                                    p.name))
  IN [i \in 1..Len(kept) |->
        [account |-> oreAccount, chainAccount |-> chainAccount,
         chainNetwork |-> chainNetwork, publicKey |-> kept[i].publicKey,
         parentPermission |-> parentPermissionFor(kept[i]),
         permission |-> kept[i].name, provider |-> provider]]

IdleRc ==
  [pc |-> "idle", caller |-> "none", chainAccount |-> "", chainNetwork |-> "",
   walletPermissions |-> <<>>, oreAccount |-> "", provider |-> "none",
   err |-> "none", base |-> 0]

IdleDr ==
  [pc |-> "idle", i |-> 0, run |-> 0, adds |-> 0, prevOk |-> TRUE, base |-> 0]

\* the early return with the chain network left untested
returnsAtOnce_IgnoresNetwork(oreAccount, walletPermissions, chainNetwork) ==
  oreAccount = "" \/ isNullOrEmpty(walletPermissions)

\* "if (isNullOrEmpty(oreAccount) || isNullOrEmpty(walletPermissions) ||
\* isNullOrEmpty(chainNetwork)) return"
returnsAtOnce(oreAccount, walletPermissions, chainNetwork) ==
  oreAccount = "" \/ isNullOrEmpty(walletPermissions) \/ chainNetwork = ""

\* synchronous start of addWalletPermissionstoOreIdAccount: the no-op
\* return, or the first getUser(oreAccount, true)
ReconcileEnter(caller, chainAccount, chainNetwork, walletPermissions, oreAccount, provider) ==
  rc' = [pc |-> IF returnsAtOnce(oreAccount, walletPermissions, chainNetwork)
                  THEN "done" ELSE "getUser1",
         caller |-> caller, chainAccount |-> chainAccount,
         chainNetwork |-> chainNetwork, walletPermissions |-> walletPermissions,
         oreAccount |-> oreAccount, provider |-> provider, err |-> "none",
         base |-> Len(addRequests)]

\* a caller invokes addWalletPermissionstoOreIdAccount (the permission sync
\* of a connect passes one candidate)
Reconcile(chainAccount, chainNetwork, walletPermissions, oreAccount, provider) ==
  /\ dr.pc = "idle"
  /\ rc.pc = "idle"
  /\ calls < MaxCalls
  /\ calls' = calls + 1
  /\ ReconcileEnter("direct", chainAccount, chainNetwork, walletPermissions,
                    oreAccount, provider)
  /\ UNCHANGED <<initialPerms, serverPerms, cachedUser, addRequests, pendingAdds,
                 addFailed, rejectedAdds, walletKeys, dr>>
  /\ UNCHANGED notRecVars

\* getUser(oreAccount, true): refresh skips the cached user, the record is
\* fetched from the service and the user just stored is returned
getUserRefreshed(current, earlier) == current

\* the first getUser resolves: the user is saved, every candidate is tested
\* against it and the addPermission requests are sent; the map's promises
\* are not awaited, so the second getUser is requested at once.  Or the
\* getUser fails and the call throws.
ReconcileUserFetched ==
  /\ rc.pc = "getUser1"
  /\ \/ LET theUser == getUserRefreshed(serverPerms, initialPerms)
            new == addPermissionCalls(theUser, rc.chainAccount, rc.chainNetwork,
                                      rc.walletPermissions, rc.oreAccount,
                                      rc.provider)
        IN /\ cachedUser' = serverPerms
           /\ addRequests' = addRequests \o new
           /\ pendingAdds' = pendingAdds \cup
                             ((Len(addRequests) + 1)..(Len(addRequests) + Len(new)))
           /\ dr' = IF rc.caller = "discover"
                      THEN [dr EXCEPT !.adds = dr.adds + Len(new)] ELSE dr
           /\ rc' = [rc EXCEPT !.pc = "getUser2"]
     \/ /\ rc' = [rc EXCEPT !.pc = "done", !.err = "ApiError"]
        /\ UNCHANGED <<cachedUser, addRequests, pendingAdds, dr>>
  /\ UNCHANGED <<initialPerms, serverPerms, addFailed, rejectedAdds, walletKeys, calls>>
  /\ UNCHANGED notRecVars

\* the older copy of addWalletPermissionstoOreIdAccount, up to its
\* "await this.getUserInfoFromApi(userOreAccount)": the no-op return, or
\* every candidate is tested against this.user as it is cached, the
\* addPermission requests are sent without being awaited and the user
\* record is requested
ReconcileOlder(chainAccount, chainNetwork, walletPermissions, oreAccount, provider) ==
  /\ dr.pc = "idle"
  /\ rc.pc = "idle"
  /\ calls < MaxCalls
  /\ calls' = calls + 1
  /\ LET noOp == returnsAtOnce(oreAccount, walletPermissions, chainNetwork)
         new == IF noOp THEN <<>>
                ELSE addPermissionCalls(cachedUser, chainAccount, chainNetwork,
                                        walletPermissions, oreAccount, provider)
     IN /\ rc' = [pc |-> IF noOp THEN "done" ELSE "getUser2",
                  caller |-> "direct", chainAccount |-> chainAccount,
                  chainNetwork |-> chainNetwork,
                  walletPermissions |-> walletPermissions,
                  oreAccount |-> oreAccount, provider |-> provider,
                  err |-> "none", base |-> Len(addRequests)]
        /\ addRequests' = addRequests \o new
        /\ pendingAdds' = pendingAdds \cup
                          ((Len(addRequests) + 1)..(Len(addRequests) + Len(new)))
  /\ UNCHANGED <<initialPerms, serverPerms, cachedUser, addFailed, rejectedAdds,
                 walletKeys, dr>>
  /\ UNCHANGED notRecVars

\* the second getUser resolves (the user is saved) or fails
ReconcileUserReloaded ==
  /\ rc.pc = "getUser2"
  /\ \/ cachedUser' = serverPerms /\ rc' = [rc EXCEPT !.pc = "done"]
     \/ UNCHANGED cachedUser /\ rc' = [rc EXCEPT !.pc = "done", !.err = "ApiError"]
  /\ UNCHANGED <<initialPerms, serverPerms, addRequests, pendingAdds, addFailed, rejectedAdds,
                 walletKeys, calls, dr>>
  /\ UNCHANGED notRecVars

\* addWalletPermissionstoOreIdAccount returns or throws to its caller; the
\* discover loop goes on to the next credential or ends with the error
ReconcileReturns ==
  /\ rc.pc = "done"
  /\ rc' = IdleRc
  /\ dr' = IF rc.caller = "discover"
             THEN IF rc.err = "none"
                    THEN [dr EXCEPT !.pc = "loop", !.i = dr.i + 1]
                    ELSE [dr EXCEPT !.pc = "idle", !.prevOk = FALSE]
             ELSE dr
  /\ UNCHANGED <<initialPerms, serverPerms, cachedUser, addRequests, pendingAdds,
                 addFailed, rejectedAdds, walletKeys, calls>>
  /\ UNCHANGED notRecVars

\* the identity service stores the permission of a pending request
ServiceAddsPermission(i) ==
  /\ i \in pendingAdds
  /\ serverPerms' = serverPerms \cup
       { PermissionRecord(addRequests[i].chainAccount, addRequests[i].chainNetwork,
                          addRequests[i].permission) }
  /\ pendingAdds' = pendingAdds \ {i}
  /\ UNCHANGED <<initialPerms, cachedUser, addRequests, addFailed, rejectedAdds, walletKeys,
                 calls, dr, rc>>
  /\ UNCHANGED notRecVars

\* the identity service answers a pending request with an error; the
\* addPermission promise of the map rejects and nobody awaits it
ServiceRejectsAdd(i) ==
  /\ i \in pendingAdds
  /\ pendingAdds' = pendingAdds \ {i}
  /\ addFailed' = TRUE
  /\ rejectedAdds' = rejectedAdds \cup {i}
  /\ UNCHANGED <<initialPerms, serverPerms, cachedUser, addRequests, walletKeys,
                 calls, dr, rc>>
  /\ UNCHANGED notRecVars

\* discoverCredentialsInWallet: the wallet is set up and its discover()
\* has returned walletKeys; the loop over the credentials starts
DiscoverCredentialsInWallet ==
  /\ dr.pc = "idle"
  /\ rc.pc = "idle"
  /\ calls < MaxCalls
  /\ calls' = calls + 1
  /\ dr' = [dr EXCEPT !.pc = "loop", !.i = 1, !.run = dr.run + 1, !.adds = 0,
                      !.base = Len(addRequests)]
  /\ UNCHANGED <<initialPerms, serverPerms, cachedUser, addRequests, pendingAdds,
                 addFailed, rejectedAdds, walletKeys, rc>>
  /\ UNCHANGED notRecVars

\* one turn of the loop: the credential's first account and authorization
\* are reconciled; a credential without accounts is passed over; after the
\* last credential the call returns
DiscoverNextCredential ==
  /\ dr.pc = "loop"
  /\ rc.pc = "idle"
  /\ IF dr.i > Len(walletKeys)
       THEN dr' = [dr EXCEPT !.pc = "idle"] /\ UNCHANGED rc
       ELSE LET credential == walletKeys[dr.i] IN
            IF Len(credential.accounts) > 0
              THEN /\ ReconcileEnter("discover", credential.accounts[1].account,
                        "eos_main",
                        << Candidate(credential.accounts[1].authorization,
                                     credential.key, "") >>,
                        IdentityAccount, "ledger")
                   /\ dr' = [dr EXCEPT !.pc = "await"]
              ELSE dr' = [dr EXCEPT !.i = dr.i + 1] /\ UNCHANGED rc
  /\ UNCHANGED <<initialPerms, serverPerms, cachedUser, addRequests, pendingAdds,
                 addFailed, rejectedAdds, walletKeys, calls>>
  /\ UNCHANGED notRecVars

\* ------------------------------------------------------------------------
\* Wallet set-up: setupTransitWallet and the access-context cache
\* ------------------------------------------------------------------------

\* setupTransitWallet calls one run starts
MaxSetups == 3

\* callers that may have a setupTransitWallet call in progress at once
SessionCallers == {1, 2}

SessionProviders == {"scatter", "ledger"}

ChainNetworks == {"eos_main", "eos_kylin"}

IdleSc == [pc |-> "idle", provider |-> "none", chainNetwork |-> "none",
           chainContext |-> 0, transitWallet |-> 0, hadSession |-> FALSE,
           result |-> "none"]

\* a wallet object for the pair has completed connect()
sessionConnected(provider, chainNetwork) ==
  \E i \in 1..Len(walletObjects) :
    /\ walletObjects[i].provider = provider
    /\ walletObjects[i].chainNetwork = chainNetwork
    /\ walletObjects[i].connected

\* setupTransitWallet({ provider, chainNetwork }) up to the first await that
\* suspends it: getOrCreateEosTransitAccessContext returns the cached context
\* or waits for getNetworkConfig
SetupTransitWallet(c, provider, chainNetwork) ==
  /\ sc[c].pc = "idle"
  /\ setupCalls < MaxSetups
  /\ setupCalls' = setupCalls + 1
  /\ sc' = [sc EXCEPT ![c] =
       [IdleSc EXCEPT
          !.pc = IF transitAccessContexts[chainNetwork] # 0
                   THEN "initWallet" ELSE "networkConfig",
          !.provider = provider,
          !.chainNetwork = chainNetwork,
          !.chainContext = transitAccessContexts[chainNetwork],
          !.hadSession = sessionConnected(provider, chainNetwork)]]
  /\ UNCHANGED <<transitAccessContexts, contextsCreated, walletObjects>>
  /\ UNCHANGED notSessVars

\* getNetworkConfig settles: it throws, or initAccessContext makes a context
\* that is stored in the cache under the network
GetNetworkConfigReturns(c) ==
  /\ sc[c].pc = "networkConfig"
  /\ \/ /\ sc' = [sc EXCEPT ![c].pc = "done", ![c].result = "threw"]
        /\ UNCHANGED <<transitAccessContexts, contextsCreated>>
     \/ LET n == sc[c].chainNetwork
            walletContext == contextsCreated[n] + 1
        IN /\ contextsCreated' = [contextsCreated EXCEPT ![n] = walletContext]
           /\ transitAccessContexts' =
                [transitAccessContexts EXCEPT ![n] = walletContext]
           /\ sc' = [sc EXCEPT ![c].pc = "initWallet",
                               ![c].chainContext = walletContext]
  /\ UNCHANGED <<walletObjects, setupCalls>>
  /\ UNCHANGED notSessVars

\* chainContext.initWallet(transitProvider) and the call of connect()
InitWalletAndConnect(c) ==
  /\ sc[c].pc = "initWallet"
  /\ walletObjects' = Append(walletObjects,
       [provider |-> sc[c].provider, chainNetwork |-> sc[c].chainNetwork,
        chainContext |-> sc[c].chainContext, connected |-> FALSE,
        connectCalls |-> 1])
  /\ sc' = [sc EXCEPT ![c].pc = "connect",
                      ![c].transitWallet = Len(walletObjects) + 1]
  /\ UNCHANGED <<transitAccessContexts, contextsCreated, setupCalls>>
  /\ UNCHANGED notSessVars

\* transitWallet.connect() settles
WalletConnectReturns(c) ==
  /\ sc[c].pc = "connect"
  /\ \/ /\ walletObjects' =
             [walletObjects EXCEPT ![sc[c].transitWallet].connected = TRUE]
        /\ sc' = [sc EXCEPT ![c].pc = "waitIdle"]
     \/ /\ sc' = [sc EXCEPT ![c].pc = "done", ![c].result = "threw"]
        /\ UNCHANGED walletObjects
  /\ UNCHANGED <<transitAccessContexts, contextsCreated, setupCalls>>
  /\ UNCHANGED notSessVars

\* waitWhileWalletIsBusy returns and setupTransitWallet returns the wallet
SetupTransitWalletReturns(c) ==
  /\ sc[c].pc = "waitIdle"
  /\ sc' = [sc EXCEPT ![c].pc = "done", ![c].result = "wallet"]
  /\ UNCHANGED <<transitAccessContexts, contextsCreated, walletObjects,
                 setupCalls>>
  /\ UNCHANGED notSessVars

\* the caller takes the outcome of its call
SetupObserved(c) ==
  /\ sc[c].pc = "done"
  /\ sc' = [sc EXCEPT ![c] = IdleSc]
  /\ UNCHANGED <<transitAccessContexts, contextsCreated, walletObjects,
                 setupCalls>>
  /\ UNCHANGED notSessVars

\* ------------------------------------------------------------------------
\* Signing through the identity service: what is sent and what comes back
\* ------------------------------------------------------------------------

\* signing operations one run starts
MaxSignOps == 2

\* a value with the number of base64 layers around it; Absent is undefined
Encoded(data, layers) == [data |-> data, layers |-> layers]

Absent == Encoded("none", 0)

\* what base64DecodeSafe returns for a string it cannot decode
NullValue == Encoded("null", 0)

\* Helpers.base64Encode: one more layer
base64Encode(v) == Encoded(v.data, v.layers + 1)

\* Helpers.base64DecodeSafe: one layer fewer, null when there is none
base64DecodeSafe(v) == IF v.layers > 0 THEN Encoded(v.data, v.layers - 1) ELSE NullValue

\* transactions a caller passes in signOptions: raw, or none
TransactionInputs == {Absent, Encoded("trxA", 0), Encoded("trxB", 0)}

\* the signed transaction the identity service hands back for a request:
\* base64-encoded, in an API response as on a callback URL
serviceSigned(bodyTransaction, bodySigned) ==
  Encoded(IF bodyTransaction # Absent THEN bodyTransaction.data ELSE bodySigned.data, 1)

IdleSg ==
  [pc |-> "idle", path |-> "none", transaction |-> Absent,
   signedTransaction |-> Absent, preventAutoSign |-> FALSE,
   bodyTransaction |-> Absent, bodySigned |-> Absent, received |-> Absent,
   decodes |-> 0, result |-> Absent, outcome |-> "none"]

\* callSignTransaction up to its request: "if (transactionParam)
\* body.transaction = Helpers.base64Encode(transactionParam)", and the same
\* for signedTransaction
callSignTransactionBody(s) ==
  [s EXCEPT !.pc = "sign",
            !.bodyTransaction = IF s.transaction # Absent
                                  THEN base64Encode(s.transaction) ELSE Absent,
            !.bodySigned = IF s.signedTransaction # Absent
                             THEN base64Encode(s.signedTransaction) ELSE Absent]

\* getOreIdSignUrl up to its await of getAccessToken: the required
\* parameters are tested first
enterSignUrl(s) ==
  IF s.transaction = Absent /\ s.signedTransaction = Absent
    THEN [s EXCEPT !.pc = "done", !.path = "redirect", !.outcome = "threw",
                   !.bodyTransaction = Absent, !.bodySigned = Absent]
    ELSE [s EXCEPT !.pc = "url", !.path = "redirect",
                   !.bodyTransaction = Absent, !.bodySigned = Absent]

\* custodialSignWithOreId(signOptions) on an engine with a serviceKey
CustodialSignWithOreId(transaction, signedTransaction) ==
  /\ sg.pc = "idle"
  /\ signOps < MaxSignOps
  /\ signOps' = signOps + 1
  /\ sg' = callSignTransactionBody(
             [IdleSg EXCEPT !.path = "custodial", !.transaction = transaction,
                            !.signedTransaction = signedTransaction])
  /\ UNCHANGED notEncVars

\* signWithOreId(signOptions): checkIfTrxAutoSignable throws without a
\* serviceKey, and otherwise sends the transaction encoded
SignWithOreId(transaction, signedTransaction, preventAutoSign, serviceKey) ==
  /\ sg.pc = "idle"
  /\ signOps < MaxSignOps
  /\ signOps' = signOps + 1
  /\ LET s == [IdleSg EXCEPT !.path = "auto", !.transaction = transaction,
                             !.signedTransaction = signedTransaction,
                             !.preventAutoSign = preventAutoSign]
     IN sg' = IF serviceKey
                THEN [s EXCEPT !.pc = "canAutoSign",
                        !.bodyTransaction = IF transaction # Absent
                                              THEN base64Encode(transaction) ELSE Absent,
                        !.bodySigned = IF signedTransaction # Absent
                                         THEN base64Encode(signedTransaction)
                                         ELSE Absent]
                ELSE enterSignUrl(s)
  /\ UNCHANGED notEncVars

\* the can-auto-sign request is answered: autoSignTransaction follows, or
\* the sign URL is built
CanAutoSignAnswered ==
  /\ sg.pc = "canAutoSign"
  /\ \E canAutoSign \in BOOLEAN :
       sg' = IF autoSignChosen(canAutoSign, sg.preventAutoSign)
               THEN callSignTransactionBody(sg)
               ELSE enterSignUrl(sg)
  /\ UNCHANGED signOps
  /\ UNCHANGED notEncVars

\* the sign request is answered: callSignTransaction hands the response's
\* signed_transaction to the caller as it came; or the request fails, as
\* it does when it carried no transaction
SignRequestAnswered ==
  /\ sg.pc = "sign"
  /\ \/ LET signedTransaction == serviceSigned(sg.bodyTransaction, sg.bodySigned)
        IN /\ sg.bodyTransaction # Absent \/ sg.bodySigned # Absent
           /\ sg' = [sg EXCEPT !.pc = "done", !.outcome = "returned",
                               !.received = signedTransaction,
                               !.result = signedTransaction]
     \/ sg' = [sg EXCEPT !.pc = "done", !.outcome = "threw"]
  /\ UNCHANGED signOps
  /\ UNCHANGED notEncVars

\* getAccessToken resolves and getOreIdSignUrl builds the URL with the
\* parameters that are present, each encoded; or getAccessToken fails
SignUrlBuilt ==
  /\ sg.pc = "url"
  /\ \/ sg' = [sg EXCEPT !.pc = "done", !.outcome = "returned",
                 !.bodyTransaction = IF sg.transaction # Absent
                                       THEN base64Encode(sg.transaction) ELSE Absent,
                 !.bodySigned = IF sg.signedTransaction # Absent
                                  THEN base64Encode(sg.signedTransaction)
                                  ELSE Absent]
     \/ sg' = [sg EXCEPT !.pc = "done", !.outcome = "threw"]
  /\ UNCHANGED signOps
  /\ UNCHANGED notEncVars

\* the result of handleSignResponse and of handleSignCallback for a callback
\* URL: the signed_transaction parameter is decoded when there are no errors
signCallbackResult(path, encodedTransaction, errors) ==
  [IdleSg EXCEPT !.pc = "done", !.path = path, !.outcome = "returned",
                 !.received = encodedTransaction,
                 !.decodes = IF errors THEN 0 ELSE 1,
                 !.result = IF errors THEN Absent
                            ELSE base64DecodeSafe(encodedTransaction)]

\* handleSignResponse(callbackUrlString)
HandleSignResponseUrl(encodedTransaction, errors) ==
  /\ sg.pc = "idle"
  /\ signOps < MaxSignOps
  /\ signOps' = signOps + 1
  /\ sg' = signCallbackResult("callback", encodedTransaction, errors)
  /\ UNCHANGED notEncVars

\* handleSignCallback(callbackUrlString) of the newer engine
HandleSignCallback(encodedTransaction, errors) ==
  /\ sg.pc = "idle"
  /\ signOps < MaxSignOps
  /\ signOps' = signOps + 1
  /\ sg' = signCallbackResult("widgetCallback", encodedTransaction, errors)
  /\ UNCHANGED notEncVars

\* the caller takes the outcome of the operation
SignObserved ==
  /\ sg.pc = "done"
  /\ sg' = IdleSg
  /\ UNCHANGED signOps
  /\ UNCHANGED notEncVars

\* ------------------------------------------------------------------------
\* Newer engine: init() and the popup accessor
\* ------------------------------------------------------------------------

\* init() calls and popup reads one run makes
MaxInitOps == 4

\* callers that may have an init() call in progress at once
InitCallers == {1, 2}

\* assertIsInitialized with the test left out
assertIsInitializedThrows_Never(initialized) == FALSE

\* assertIsInitialized: "if (!this.isInitialized) throw"
assertIsInitializedThrows(initialized) == ~initialized

\* init() up to its first await: it returns at once on an initialized
\* engine, awaits the popup plug-in's init when one is configured, and
\* otherwise sets _isInitialized
InitStarts(c) ==
  /\ ini[c] = "idle"
  /\ initOps < MaxInitOps
  /\ initOps' = initOps + 1
  /\ IF isInitialized
       THEN /\ ini' = [ini EXCEPT ![c] = "returned"]
            /\ UNCHANGED <<isInitialized, initsCompleted, popupInits>>
       ELSE IF hasPopupPlugin
              THEN /\ ini' = [ini EXCEPT ![c] = "pluginInit"]
                   /\ popupInits' = popupInits + 1
                   /\ UNCHANGED <<isInitialized, initsCompleted>>
              ELSE /\ ini' = [ini EXCEPT ![c] = "returned"]
                   /\ isInitialized' = TRUE
                   /\ initsCompleted' = initsCompleted + 1
                   /\ UNCHANGED popupInits
  /\ UNCHANGED <<hasPopupPlugin, popupPlugin, popupLog>>
  /\ UNCHANGED notInitVars

\* the plug-in's init resolves: _popup is set, then _isInitialized
PopupInitResolves(c) ==
  /\ ini[c] = "pluginInit"
  /\ popupPlugin' = c
  /\ isInitialized' = TRUE
  /\ initsCompleted' = initsCompleted + 1
  /\ ini' = [ini EXCEPT ![c] = "returned"]
  /\ UNCHANGED <<hasPopupPlugin, popupLog, popupInits, initOps>>
  /\ UNCHANGED notInitVars

\* the plug-in's init rejects: init() throws before setting _isInitialized
PopupInitRejects(c) ==
  /\ ini[c] = "pluginInit"
  /\ ini' = [ini EXCEPT ![c] = "threw"]
  /\ UNCHANGED <<hasPopupPlugin, popupPlugin, isInitialized, initsCompleted,
                 popupLog, popupInits, initOps>>
  /\ UNCHANGED notInitVars

\* the caller takes the outcome of its init() call
InitObserved(c) ==
  /\ ini[c] \in {"returned", "threw"}
  /\ ini' = [ini EXCEPT ![c] = "idle"]
  /\ UNCHANGED <<hasPopupPlugin, popupPlugin, isInitialized, initsCompleted,
                 popupLog, popupInits, initOps>>
  /\ UNCHANGED notInitVars

\* a read of the popup accessor: assertIsInitialized, then _popup
ReadPopup ==
  /\ initOps < MaxInitOps
  /\ initOps' = initOps + 1
  /\ popupLog' = Append(popupLog,
       IF assertIsInitializedThrows(isInitialized) THEN "threw" ELSE "returned")
  /\ UNCHANGED <<hasPopupPlugin, popupPlugin, isInitialized, initsCompleted, ini,
                 popupInits>>
  /\ UNCHANGED notInitVars

\* ------------------------------------------------------------------------
\* Newer engine: callOreIdApi
\* ------------------------------------------------------------------------

\* callOreIdApi calls one run makes
MaxApiCalls == 3

\* endpoints a call may name; the first is one of publicApiEndpoints
ApiEndpoints == {"app-token-public", "account/user"}

publicApiEndpoints == {"app-token-public"}

IdleApi ==
  [pc |-> "idle", requestMethod |-> "none", endpoint |-> "none",
   overrideAccessToken |-> FALSE, apiKeyHeader |-> FALSE,
   authorizationHeader |-> FALSE, outcome |-> "none"]

\* the credentials test with every endpoint taken for a public one
requiresCredentials_NoTest(apiKey, accessToken, endpoint) == FALSE

\* "if (!apiKey && !accessToken && !publicApiEndpoints.includes(endpoint))"
requiresCredentials(apiKey, accessToken, endpoint) ==
  ~apiKey /\ ~accessToken /\ endpoint \notin publicApiEndpoints

\* callOreIdApi(requestMethod, endpoint, params, overrideAccessToken) up to
\* its await of the HTTP request, or to the error it throws before it
CallOreIdApi(requestMethod, endpoint, overrideAccessToken) ==
  /\ api.pc = "idle"
  /\ apiCalls < MaxApiCalls
  /\ apiCalls' = apiCalls + 1
  /\ LET accessToken == overrideAccessToken \/ storedAccessToken
         call == [IdleApi EXCEPT !.requestMethod = requestMethod,
                                 !.endpoint = endpoint,
                                 !.overrideAccessToken = overrideAccessToken]
     IN IF requiresCredentials(cfgApiKey, accessToken, endpoint)
          THEN /\ api' = [call EXCEPT !.pc = "done", !.outcome = "needsCredentials"]
               /\ UNCHANGED httpRequests
          ELSE /\ api' = [call EXCEPT !.pc = "http", !.apiKeyHeader = cfgApiKey,
                                      !.authorizationHeader = accessToken]
               /\ httpRequests' = httpRequests + 1
  /\ UNCHANGED <<cfgApiKey, storedAccessToken>>
  /\ UNCHANGED notApiVars

\* the HTTP request resolves (its data is returned) or fails (the error
\* taken from it is thrown)
HttpRequestSettles ==
  /\ api.pc = "http"
  /\ \E outcome \in {"returned", "networkError"} :
       api' = [api EXCEPT !.pc = "done", !.outcome = outcome]
  /\ UNCHANGED <<cfgApiKey, storedAccessToken, httpRequests, apiCalls>>
  /\ UNCHANGED notApiVars

\* the caller takes the outcome of the call
ApiCallObserved ==
  /\ api.pc = "done"
  /\ api' = IdleApi
  /\ UNCHANGED <<cfgApiKey, storedAccessToken, httpRequests, apiCalls>>
  /\ UNCHANGED notApiVars

\* a login stores an access token in the local state, a logout clears it
AccessTokenChanges ==
  /\ storedAccessToken' = ~storedAccessToken
  /\ UNCHANGED <<cfgApiKey, api, httpRequests, apiCalls>>
  /\ UNCHANGED notApiVars

\* ------------------------------------------------------------------------
\* discoverCredentialsInWallet: the options sent and the list returned
\* ------------------------------------------------------------------------

\* longest discoveryPathIndexList a caller passes
MaxPathLen == 2

PathIndexes == {0, 1, 2}

\* discoveryPathIndexList values a caller may pass; <<>> stands for a
\* missing or empty list
PathIndexLists ==
  UNION { [1..n -> PathIndexes] : n \in 0..MaxPathLen }

\* providers for which discover() calls discoverCredentialsInWallet
DiscoveryProviders ==
  { p \in supportedTransitProviders :
      transitProviderAttributesData[p].supportsDiscovery }

\* the options with the caller's list taken whenever it is not empty
discoverOptionsForProvider_CallerFirst(provider, inPathIndexList) ==
  IF ~isNullOrEmpty(inPathIndexList)
    THEN inPathIndexList
    ELSE transitProviderAttributesData[provider].defaultDiscoveryPathIndexList

\* discoverOptionsForProvider: the pathIndexList of the options it returns
discoverOptionsForProvider(provider, inPathIndexList) ==
  LET default == transitProviderAttributesData[provider].defaultDiscoveryPathIndexList
      pathIndexList == IF ~isNullOrEmpty(default) /\ ~isNullOrEmpty(inPathIndexList)
                         THEN inPathIndexList
                         ELSE default
  IN IF ~isNullOrEmpty(pathIndexList) THEN pathIndexList ELSE <<>>

\* the permission built from a credential with the second account taken
credentialPermission_LastAccount(credential) ==
  [account |-> credential.accounts[Len(credential.accounts)].account,
   publicKey |-> credential.key,
   name |-> credential.accounts[Len(credential.accounts)].authorization,
   parent |-> "null"]

\* "const { account, authorization } = accounts[0]" and the permission
\* built from them
credentialPermission(credential) ==
  [account |-> credential.accounts[1].account,
   publicKey |-> credential.key,
   name |-> credential.accounts[1].authorization,
   parent |-> "null"]

IdleDc ==
  [pc |-> "idle", provider |-> "none", discoveryPathIndexList |-> <<>>,
   pathIndexList |-> <<>>, credentials |-> <<>>, i |-> 0,
   accountsAndPermissions |-> <<>>, reconciled |-> <<>>, result |-> "none"]

\* discoverCredentialsInWallet(chainNetwork, provider, oreAccount,
\* discoveryPathIndexList) up to "await this.setupTransitWallet"
DiscoverCredentials(provider, discoveryPathIndexList) ==
  /\ dc.pc = "idle"
  /\ dc' = [IdleDc EXCEPT !.pc = "setup", !.provider = provider,
                          !.discoveryPathIndexList = discoveryPathIndexList]
  /\ UNCHANGED notDscVars

\* setupTransitWallet settles: it throws, or transitWallet.discover is
\* called with the options of discoverOptionsForProvider
DiscoverySetupReturns ==
  /\ dc.pc = "setup"
  /\ \/ dc' = [dc EXCEPT !.pc = "done", !.result = "threw"]
     \/ dc' = [dc EXCEPT !.pc = "discover",
                         !.pathIndexList =
                           discoverOptionsForProvider(dc.provider,
                                                      dc.discoveryPathIndexList)]
  /\ UNCHANGED notDscVars

\* transitWallet.discover() settles: it rejects, or resolves with a key map
\* and the loop starts at the first credential
WalletDiscoverReturns ==
  /\ dc.pc = "discover"
  /\ \/ dc' = [dc EXCEPT !.pc = "done", !.result = "threw"]
     \/ \E keyToAccountMap \in WalletKeyMaps :
          dc' = [dc EXCEPT !.pc = "loop", !.credentials = keyToAccountMap,
                           !.i = 1]
  /\ UNCHANGED notDscVars

\* one turn of "for (let i = 0; i < credentials.length; i += 1)": a
\* credential with accounts is handed to getChainNetworkFromTransitWallet
\* and addWalletPermissionstoOreIdAccount, one without is passed over;
\* after the last turn the list is returned
DiscoveryLoopTurn ==
  /\ dc.pc = "loop"
  /\ IF dc.i > Len(dc.credentials)
       THEN dc' = [dc EXCEPT !.pc = "done", !.result = "returned"]
       ELSE IF Len(dc.credentials[dc.i].accounts) > 0
              THEN dc' = [dc EXCEPT !.pc = "reconcile",
                                    !.reconciled = Append(dc.reconciled, dc.i)]
              ELSE dc' = [dc EXCEPT !.i = dc.i + 1]
  /\ UNCHANGED notDscVars

\* the awaited reconcile of the turn settles: it throws and ends the call,
\* or the turn's permission is added to the list
DiscoveryReconcileReturns ==
  /\ dc.pc = "reconcile"
  /\ \/ dc' = [dc EXCEPT !.pc = "done", !.result = "threw"]
     \/ dc' = [dc EXCEPT !.pc = "loop", !.i = dc.i + 1,
                         !.accountsAndPermissions =
                           dc.accountsAndPermissions \o
                             << credentialPermission(dc.credentials[dc.i]) >>]
  /\ UNCHANGED notDscVars

\* the caller has taken the call's result
DiscoveryObserved ==
  /\ dc.pc = "done"
  /\ dc' = IdleDc
  /\ UNCHANGED notDscVars

\* ------------------------------------------------------------------------
\* Provider classification with names as character strings
\* ------------------------------------------------------------------------

\* names of the enumeration of UAL providers: "s" is supported by both
\* families, "sc" by UAL alone
supportedUALNames == { <<"s">>, <<"s", "c">> }

\* names of the enumeration of Transit providers: "c" is supported by
\* Transit alone
supportedTransitNames == { <<"s">>, <<"c">> }

\* the UAL test with the installed names compared as they are written
isUALProviderNamed_CaseSensitive(provider, ualProviders) ==
  /\ provider \in supportedUALNames
  /\ \E k \in 1..Len(ualProviders) : ualProviders[k] = provider

\* isUALProvider(provider): the name is in supportedUALProviders and
\* options.ualProviders holds a provider whose name.toLowerCase() equals
\* provider.toLowerCase(); a missing list is an empty one
isUALProviderNamed(provider, ualProviders) ==
  /\ provider \in supportedUALNames
  /\ \E k \in 1..Len(ualProviders) :
       toLowerCase(ualProviders[k]) = toLowerCase(provider)

\* isTransitProvider(provider)
isTransitProviderNamed(provider, ualProviders) ==
  /\ provider \in supportedTransitNames
  /\ ~isUALProviderNamed(provider, ualProviders)

IdleCls == [pc |-> "idle", provider |-> <<>>, ual |-> FALSE, transit |-> FALSE]

\* a caller asks both tests about a provider name
Classify(provider) ==
  /\ cls.pc = "idle"
  /\ cls' = [pc |-> "done", provider |-> provider,
             ual |-> isUALProviderNamed(provider, ualNames),
             transit |-> isTransitProviderNamed(provider, ualNames)]
  /\ UNCHANGED notClsVars

\* the caller has taken the answers
ClassifyObserved ==
  /\ cls.pc = "done"
  /\ cls' = IdleCls
  /\ UNCHANGED notClsVars

\* ------------------------------------------------------------------------
\* Specifications
\* ------------------------------------------------------------------------

\* the engine variables while another specification runs
EngineParked ==
  /\ cfgServiceKey = FALSE
  /\ cfgBusyCallback = FALSE
  /\ cfgUalInstalled = {}
  /\ isBusy = "undefined"
  /\ cbLog = <<>>
  /\ cbFirst = "none"
  /\ fg = IdleFg
  /\ wallet = FreshWallet
  /\ lt = NoLoginTask
  /\ loginCalls = 0
  /\ bgRejected = "none"
  /\ bgSync = "none"
  /\ reqs = {}
  /\ walletCalled = FALSE
  /\ chainsCached = FALSE
  /\ ctxCached = FALSE

\* the constructor variables while another specification runs
CtorParked ==
  /\ optionsValid = TRUE
  /\ transitIds = <<>>
  /\ ualNames = <<>>
  /\ ctorState = "constructed"
  /\ ctorError = "none"
  /\ rejectedPromise = "none"
  /\ operationsStarted = 0

\* the discovery and reconciliation variables while another specification runs
ReconcileParked ==
  /\ initialPerms = {}
  /\ serverPerms = {}
  /\ cachedUser = "none"
  /\ addRequests = <<>>
  /\ pendingAdds = {}
  /\ addFailed = FALSE
  /\ rejectedAdds = {}
  /\ walletKeys = <<>>
  /\ calls = 0
  /\ dr = IdleDr
  /\ rc = IdleRc

\* the wallet set-up variables while another specification runs
SessionParked ==
  /\ transitAccessContexts = [n \in ChainNetworks |-> 0]
  /\ contextsCreated = [n \in ChainNetworks |-> 0]
  /\ walletObjects = <<>>
  /\ sc = [c \in SessionCallers |-> IdleSc]
  /\ setupCalls = 0

\* the signing variables while another specification runs
EncodingParked ==
  /\ sg = IdleSg
  /\ signOps = 0

\* the init() variables while another specification runs
InitParked ==
  /\ hasPopupPlugin = FALSE
  /\ popupPlugin = 0
  /\ isInitialized = FALSE
  /\ initsCompleted = 0
  /\ ini = [c \in InitCallers |-> "idle"]
  /\ popupLog = <<>>
  /\ popupInits = 0
  /\ initOps = 0

\* the callOreIdApi variables while another specification runs
ApiParked ==
  /\ cfgApiKey = TRUE
  /\ storedAccessToken = FALSE
  /\ api = IdleApi
  /\ httpRequests = 0
  /\ apiCalls = 0

\* the discoverCredentialsInWallet call while another specification runs
DiscoveryParked == dc = IdleDc

\* the classification record while another specification runs
ClassifierParked == cls = IdleCls

InitCtor ==
  /\ optionsValid \in BOOLEAN
  /\ transitIds \in NameLists
  /\ ualNames \in NameLists
  /\ ctorState = "new"
  /\ ctorError = "none"
  /\ rejectedPromise = "none"
  /\ operationsStarted = 0
  /\ EngineParked
  /\ ReconcileParked
  /\ SessionParked
  /\ EncodingParked
  /\ InitParked
  /\ ApiParked
  /\ DiscoveryParked
  /\ ClassifierParked

NextCtor == Construct \/ StartOperation

SpecCtor == InitCtor /\ [][NextCtor]_vars

\* a constructed engine: isBusy is declared without an initial value
InitEngine ==
  /\ CtorParked
  /\ ReconcileParked
  /\ SessionParked
  /\ EncodingParked
  /\ InitParked
  /\ ApiParked
  /\ DiscoveryParked
  /\ ClassifierParked
  /\ cfgServiceKey \in BOOLEAN
  /\ cfgBusyCallback \in BOOLEAN
  /\ cfgUalInstalled \in {{}, {"lynx"}}
  /\ isBusy = "undefined"
  /\ cbLog = <<>>
  /\ cbFirst = "none"
  /\ fg = IdleFg
  /\ wallet = FreshWallet
  /\ lt = NoLoginTask
  /\ loginCalls = 0
  /\ bgRejected = "none"
  /\ bgSync = "none"
  /\ reqs = {}
  /\ walletCalled = FALSE
  /\ chainsCached = FALSE
  /\ ctxCached = FALSE

NextEngine ==
  \/ \E provider \in Providers, chainAccount \in RequestedAccounts :
       Login(provider, chainAccount)
  \/ \E provider \in Providers, chainAccount \in RequestedAccounts,
        signExternalWithOreId \in BOOLEAN, preventAutoSign \in BOOLEAN :
       Sign(provider, chainAccount, signExternalWithOreId, preventAutoSign)
  \/ \E provider \in Providers, chainAccount \in RequestedAccounts :
       SignString(provider, chainAccount)
  \/ \E provider \in Providers : Discover(provider)
  \/ Observe
  \/ HandleAuthResponse
  \/ HandleSignResponse
  \/ SetupContext
  \/ SetupConnect
  \/ WaitBusy
  \/ SetupWaitIdle
  \/ WalletProgress
  \/ ConnectAfterSetup
  \/ WalletDiscoverResolves
  \/ LoginDiscoverReturns
  \/ LoginReturns
  \/ LoginLogoutReturns
  \/ LoginWaitIdle
  \/ ConnectCheck
  \/ ConnectSyncReturns
  \/ ConnectReturns
  \/ WalletSignReturns
  \/ UalNetwork
  \/ UalInit
  \/ UalLogin
  \/ UalSyncReturns
  \/ DiscoverCredsAfterSetup
  \/ DiscoverCredsReturns
  \/ DiscoverCredsReconciled
  \/ DiscoverElseAfterSetup
  \/ DiscoverElseLogoutReturns
  \/ DiscoverElseLoginReturns
  \/ BackgroundSyncEnds
  \/ CustodialSignReturns
  \/ CanAutoSignReturns
  \/ AutoSignReturns
  \/ TokenReturns

SpecEngine == InitEngine /\ [][NextEngine]_vars

\* providers whose connect runs the login loop
LoginLoopProviders ==
  { p \in supportedTransitProviders : transitProviderAttributesData[p].requiresLogin }

\* login() through a Transit provider that requires a login phase: the
\* wallet set-up with its poll, the login loop and the rest of the connect
NextLoginLoop ==
  \/ \E provider \in LoginLoopProviders, chainAccount \in RequestedAccounts :
       Login(provider, chainAccount)
  \/ Observe
  \/ SetupContext
  \/ SetupConnect
  \/ WaitBusy
  \/ SetupWaitIdle
  \/ WalletProgress
  \/ ConnectAfterSetup
  \/ WalletDiscoverResolves
  \/ LoginDiscoverReturns
  \/ LoginReturns
  \/ LoginLogoutReturns
  \/ LoginWaitIdle
  \/ ConnectCheck
  \/ ConnectSyncReturns
  \/ ConnectReturns

\* every wallet call of the login loop settles, and the 250 ms sleep of
\* waitWhileWalletIsBusy ends so that its loop test is run again
SpecLoginLoop ==
  /\ InitEngine
  /\ [][NextLoginLoop]_vars
  /\ WF_engVars(WalletDiscoverResolves)
  /\ WF_engVars(LoginDiscoverReturns)
  /\ WF_engVars(LoginReturns)
  /\ WF_engVars(LoginLogoutReturns)
  /\ WF_engVars(SetupWaitIdle)
  /\ WF_engVars(LoginWaitIdle)

InitReconcile ==
  /\ CtorParked
  /\ EngineParked
  /\ SessionParked
  /\ EncodingParked
  /\ InitParked
  /\ ApiParked
  /\ DiscoveryParked
  /\ ClassifierParked
  /\ initialPerms \in InitialPermissionSets
  /\ serverPerms = initialPerms
  /\ cachedUser = "none"
  /\ addRequests = <<>>
  /\ pendingAdds = {}
  /\ addFailed = FALSE
  /\ rejectedAdds = {}
  /\ walletKeys \in WalletKeyMaps
  /\ calls = 0
  /\ dr = IdleDr
  /\ rc = IdleRc

NextReconcile ==
  \/ \E chainAccount \in {"acct1"}, chainNetwork \in {"", "eos_main"},
        walletPermissions \in CandidateLists, oreAccount \in {"", IdentityAccount},
        provider \in {"ledger"} :
       Reconcile(chainAccount, chainNetwork, walletPermissions, oreAccount, provider)
  \/ ReconcileUserFetched
  \/ ReconcileUserReloaded
  \/ ReconcileReturns
  \/ \E i \in 1..Len(addRequests) : ServiceAddsPermission(i)
  \/ \E i \in 1..Len(addRequests) : ServiceRejectsAdd(i)
  \/ DiscoverCredentialsInWallet
  \/ DiscoverNextCredential

SpecReconcile == InitReconcile /\ [][NextReconcile]_vars

\* direct calls of addWalletPermissionstoOreIdAccount alone, as the
\* permission sync of a connect makes them, for either wallet provider
InitReconcileCall ==
  /\ CtorParked
  /\ EngineParked
  /\ SessionParked
  /\ EncodingParked
  /\ InitParked
  /\ ApiParked
  /\ DiscoveryParked
  /\ ClassifierParked
  /\ initialPerms \in InitialPermissionSets
  /\ serverPerms = initialPerms
  /\ cachedUser = "none"
  /\ addRequests = <<>>
  /\ pendingAdds = {}
  /\ addFailed = FALSE
  /\ rejectedAdds = {}
  /\ walletKeys = <<>>
  /\ calls = 0
  /\ dr = IdleDr
  /\ rc = IdleRc

\* the arguments of a direct call: every candidate list for one provider,
\* and one candidate for the other with or without a chain network and an
\* identity account
ReconcileCallInputs ==
  { [chainNetwork |-> "eos_main", walletPermissions |-> l,
     oreAccount |-> IdentityAccount, provider |-> "ledger"] : l \in CandidateLists }
  \cup
  { [chainNetwork |-> n, walletPermissions |-> << Candidate("active", "PUB1", "") >>,
     oreAccount |-> a, provider |-> "scatter"] :
      n \in {"", "eos_main"}, a \in {"", IdentityAccount} }

NextReconcileCall ==
  \/ \E in \in ReconcileCallInputs :
       Reconcile("acct1", in.chainNetwork, in.walletPermissions, in.oreAccount,
                 in.provider)
  \/ ReconcileUserFetched
  \/ ReconcileUserReloaded
  \/ ReconcileReturns
  \/ \E i \in 1..Len(addRequests) : ServiceAddsPermission(i)
  \/ \E i \in 1..Len(addRequests) : ServiceRejectsAdd(i)

SpecReconcileCall == InitReconcileCall /\ [][NextReconcileCall]_vars

\* the older engine after a login: this.user holds the record as the
\* service had it then
InitReconcileOlder ==
  /\ CtorParked
  /\ EngineParked
  /\ SessionParked
  /\ EncodingParked
  /\ InitParked
  /\ ApiParked
  /\ DiscoveryParked
  /\ ClassifierParked
  /\ initialPerms \in InitialPermissionSets
  /\ serverPerms = initialPerms
  /\ cachedUser = initialPerms
  /\ addRequests = <<>>
  /\ pendingAdds = {}
  /\ addFailed = FALSE
  /\ rejectedAdds = {}
  /\ walletKeys = <<>>
  /\ calls = 0
  /\ dr = IdleDr
  /\ rc = IdleRc

NextReconcileOlder ==
  \/ \E in \in ReconcileCallInputs :
       ReconcileOlder("acct1", in.chainNetwork, in.walletPermissions,
                      in.oreAccount, in.provider)
  \/ ReconcileUserReloaded
  \/ ReconcileReturns
  \/ \E i \in 1..Len(addRequests) : ServiceAddsPermission(i)
  \/ \E i \in 1..Len(addRequests) : ServiceRejectsAdd(i)

SpecReconcileOlder == InitReconcileOlder /\ [][NextReconcileOlder]_vars

\* a constructed engine: the constructor sets transitAccessContexts to {}
InitSession ==
  /\ CtorParked
  /\ EngineParked
  /\ ReconcileParked
  /\ EncodingParked
  /\ InitParked
  /\ ApiParked
  /\ DiscoveryParked
  /\ ClassifierParked
  /\ transitAccessContexts = [n \in ChainNetworks |-> 0]
  /\ contextsCreated = [n \in ChainNetworks |-> 0]
  /\ walletObjects = <<>>
  /\ sc = [c \in SessionCallers |-> IdleSc]
  /\ setupCalls = 0

NextSession ==
  \/ \E c \in SessionCallers, provider \in SessionProviders,
        chainNetwork \in ChainNetworks :
       SetupTransitWallet(c, provider, chainNetwork)
  \/ \E c \in SessionCallers : GetNetworkConfigReturns(c)
  \/ \E c \in SessionCallers : InitWalletAndConnect(c)
  \/ \E c \in SessionCallers : WalletConnectReturns(c)
  \/ \E c \in SessionCallers : SetupTransitWalletReturns(c)
  \/ \E c \in SessionCallers : SetupObserved(c)

SpecSession == InitSession /\ [][NextSession]_vars

InitEncoding ==
  /\ CtorParked
  /\ EngineParked
  /\ ReconcileParked
  /\ SessionParked
  /\ InitParked
  /\ ApiParked
  /\ DiscoveryParked
  /\ ClassifierParked
  /\ sg = IdleSg
  /\ signOps = 0

NextEncoding ==
  \/ \E transaction \in TransactionInputs, signedTransaction \in TransactionInputs :
       CustodialSignWithOreId(transaction, signedTransaction)
  \/ \E transaction \in TransactionInputs, signedTransaction \in TransactionInputs,
        preventAutoSign \in BOOLEAN, serviceKey \in BOOLEAN :
       SignWithOreId(transaction, signedTransaction, preventAutoSign, serviceKey)
  \/ CanAutoSignAnswered
  \/ SignRequestAnswered
  \/ SignUrlBuilt
  \/ \E encodedTransaction \in {Absent, Encoded("trxA", 1)}, errors \in BOOLEAN :
       HandleSignResponseUrl(encodedTransaction, errors)
  \/ \E encodedTransaction \in {Absent, Encoded("trxA", 1)}, errors \in BOOLEAN :
       HandleSignCallback(encodedTransaction, errors)
  \/ SignObserved

SpecEncoding == InitEncoding /\ [][NextEncoding]_vars

\* a newly constructed engine of the newer kind: the constructor sets
\* _isInitialized to false
InitInit ==
  /\ CtorParked
  /\ EngineParked
  /\ ReconcileParked
  /\ SessionParked
  /\ EncodingParked
  /\ ApiParked
  /\ DiscoveryParked
  /\ ClassifierParked
  /\ hasPopupPlugin \in BOOLEAN
  /\ popupPlugin = 0
  /\ isInitialized = FALSE
  /\ initsCompleted = 0
  /\ ini = [c \in InitCallers |-> "idle"]
  /\ popupLog = <<>>
  /\ popupInits = 0
  /\ initOps = 0

NextInit ==
  \/ \E c \in InitCallers : InitStarts(c)
  \/ \E c \in InitCallers : PopupInitResolves(c)
  \/ \E c \in InitCallers : PopupInitRejects(c)
  \/ \E c \in InitCallers : InitObserved(c)
  \/ ReadPopup

SpecInit == InitInit /\ [][NextInit]_vars

InitApi ==
  /\ CtorParked
  /\ EngineParked
  /\ ReconcileParked
  /\ SessionParked
  /\ EncodingParked
  /\ InitParked
  /\ DiscoveryParked
  /\ ClassifierParked
  /\ cfgApiKey \in BOOLEAN
  /\ storedAccessToken \in BOOLEAN
  /\ api = IdleApi
  /\ httpRequests = 0
  /\ apiCalls = 0

NextApi ==
  \/ \E requestMethod \in {"get", "post"}, endpoint \in ApiEndpoints,
        overrideAccessToken \in BOOLEAN :
       CallOreIdApi(requestMethod, endpoint, overrideAccessToken)
  \/ HttpRequestSettles
  \/ ApiCallObserved
  \/ AccessTokenChanges

SpecApi == InitApi /\ [][NextApi]_vars

InitDiscovery ==
  /\ CtorParked
  /\ EngineParked
  /\ ReconcileParked
  /\ SessionParked
  /\ EncodingParked
  /\ InitParked
  /\ ApiParked
  /\ ClassifierParked
  /\ dc = IdleDc

NextDiscovery ==
  \/ \E provider \in DiscoveryProviders, discoveryPathIndexList \in PathIndexLists :
       DiscoverCredentials(provider, discoveryPathIndexList)
  \/ DiscoverySetupReturns
  \/ WalletDiscoverReturns
  \/ DiscoveryLoopTurn
  \/ DiscoveryReconcileReturns
  \/ DiscoveryObserved

SpecDiscovery == InitDiscovery /\ [][NextDiscovery]_vars

\* a constructed instance with any installed list of UAL providers (the
\* tests do not read options.eosTransitWalletProviders)
InitClassifier ==
  /\ EngineParked
  /\ ReconcileParked
  /\ SessionParked
  /\ EncodingParked
  /\ InitParked
  /\ ApiParked
  /\ DiscoveryParked
  /\ optionsValid = TRUE
  /\ transitIds = <<>>
  /\ ualNames \in NameLists
  /\ ctorState = "constructed"
  /\ ctorError = "none"
  /\ rejectedPromise = "none"
  /\ operationsStarted = 0
  /\ cls = IdleCls

NextClassifier ==
  \/ \E provider \in Names : Classify(provider)
  \/ ClassifyObserved

SpecClassifier == InitClassifier /\ [][NextClassifier]_vars


\* ------------------------------------------------------------------------
\* Claims
\* ------------------------------------------------------------------------

HasDuplicateProviders ==
  \E i \in 1..Len(transitIds) : \E k \in 1..Len(ualNames) :
    includes(toLowerCase(transitIds[i]), toLowerCase(ualNames[k]))

\* C4: constructing the engine with a Transit provider whose id contains
\* (case-insensitively) the name of an installed UAL provider fails in the
\* constructor call itself: no instance is obtained and no operation starts.
C4_DuplicateConstructorFails ==
  (optionsValid /\ HasDuplicateProviders /\ ctorState # "new") =>
    (ctorState = "threw" /\ ctorError = "Duplicate" /\ operationsStarted = 0)

\* the record an add-permission request creates
RequestedRecord(i) ==
  PermissionRecord(addRequests[i].chainAccount, addRequests[i].chainNetwork,
                   addRequests[i].permission)

\* C1: for every existing permission list (the empty one included) and
\* every candidate list, no add-permission request names the "owner"
\* permission.
C1_NoOwnerRequest ==
  \A i \in 1..Len(addRequests) : addRequests[i].permission # "owner"

\* C2: the add-permission requests issued for the identity account,
\* together with the records it had before, never hold two entries with the
\* same chain account, chain network and permission name.
C2_NoDuplicateRecords ==
  /\ \A i, j \in 1..Len(addRequests) :
       i # j => RequestedRecord(i) # RequestedRecord(j)
  /\ \A i \in 1..Len(addRequests) : RequestedRecord(i) \notin initialPerms

\* C3 (as claimed): one call of the login loop, its retries included,
\* invokes the wallet's login at most 3 times.
C3_AtMostThreeLogins == loginCalls <= 3

\* C3 (amended): one call of the login loop, its retries included, invokes
\* the wallet's login at most 4 times: the first attempt and 3 retries.
C3_AtMostFourLogins == loginCalls <= 4

\* a mismatching wallet has been asked to log in four times
C3_FourLoginsReached ==
  /\ loginCalls = 4
  /\ fg.chainAccount = "rightacct"
  /\ wallet.auth = "wrongacct"

\* the exits of connectToTransitProvider, signWithTransitProvider,
\* signWithUALProvider, signString and discover
BusyOperationExit ==
  \/ fg.pc = "conn_done" /\ fg.path = "connect"
  \/ fg.pc = "exit" /\ fg.op = "sign" /\ fg.route = "wallet"
  \/ fg.pc = "exit" /\ fg.op \in {"signString", "discover"}

\* C5: at every exit, by return or by error, of connectToTransitProvider,
\* signWithTransitProvider, signWithUALProvider, signString and discover
\* the busy flag is false.
C5_BusyFalseOnExit == BusyOperationExit => isBusy = "false"

\* C6: the busy callback is invoked exactly once by every setIsBusy call
\* that changes the flag and not at all by a call that leaves it unchanged,
\* so two consecutive invocations never carry the same value.
C6_CallbackOncePerChange ==
  [][ /\ (isBusy' # isBusy /\ cfgBusyCallback)
           => cbLog' = Window(Append(cbLog, isBusy'))
      /\ (isBusy' = isBusy \/ ~cfgBusyCallback) => cbLog' = cbLog
      /\ \A i \in 1..(Len(cbLog') - 1) : cbLog'[i] # cbLog'[i + 1] ]_vars

\* an operation has ended after the callback was told true and then false
C6_CallbackAlternated ==
  /\ cfgBusyCallback
  /\ Len(cbLog) >= 2
  /\ cbLog[Len(cbLog) - 1] = "true"
  /\ cbLog[Len(cbLog)] = "false"
  /\ isBusy = "false"
  /\ fg.pc = "exit"

\* C7: on a freshly constructed engine the first invocation of the busy
\* callback carries true; no false is delivered before a true.
C7_FirstCallbackIsTrue == cbFirst # "false"

\* C8: a discover run that starts after an earlier run over the same wallet
\* keys has returned, with no add-permission request refused, issues no
\* add-permission request.
C8_SecondDiscoverAddsNothing ==
  (dr.run >= 2 /\ dr.prevOk /\ ~addFailed) => dr.adds = 0

\* C9: sign() with the custodial provider on an engine without serviceKey
\* ends with the missing-serviceKey error, and no identity-service request
\* and no wallet call has been made.
C9_CustodialSignNeedsServiceKey ==
  (fg.op = "sign" /\ isCustodial(fg.provider) /\ ~cfgServiceKey) =>
    /\ fg.pc = "exit"
    /\ fg.outcome = "threw"
    /\ fg.value = "MissingServiceKey"
    /\ reqs = {}
    /\ ~walletCalled

\* a custodial sign has failed on an engine without serviceKey
C9_CustodialSignRefused ==
  /\ fg.op = "sign"
  /\ fg.provider = "custodial"
  /\ ~cfgServiceKey
  /\ fg.value = "MissingServiceKey"

\* C10: for a provider of the not-implemented set sign() returns an empty
\* result with no wallet call, no identity-service request and no change of
\* the busy flag, and login() fails with Not Implemented; the provider's
\* other classifications (external wallet, hosted signing) do not matter.
C10_NotImplementedProvider ==
  /\ []((fg.provider \in providersNotImplemented /\ fg.op \in {"sign", "login"}) =>
          /\ fg.pc = "exit"
          /\ reqs = {}
          /\ ~walletCalled
          /\ fg.op = "sign" => (fg.outcome = "returned" /\ fg.value = "null")
          /\ fg.op = "login" => (fg.outcome = "threw" /\ fg.value = "NotImplemented"))
  /\ [][(fg'.provider \in providersNotImplemented /\ fg'.op = "sign" /\ fg.pc = "idle")
          => (isBusy' = isBusy /\ cbLog' = cbLog)]_vars

\* a hosted-signing sign() for a not-implemented wallet provider has
\* returned the empty result
C10_NotImplementedSignReturned ==
  /\ fg.op = "sign"
  /\ fg.provider \in providersNotImplemented
  /\ isTransitProvider(fg.provider)
  /\ fg.signExternalWithOreId
  /\ fg.pc = "exit"
  /\ fg.value = "null"

\* the requests of the service-side signing path
ServiceSignRequests == {"transaction/can-auto-sign", "transaction/sign", "app-token"}

\* a sign() for an implemented provider classified as a wallet provider
WalletSign ==
  /\ fg.op = "sign"
  /\ fg.provider \notin providersNotImplemented
  /\ isUALProvider(fg.provider) \/ isTransitProvider(fg.provider)

\* C11: sign() for a Transit or UAL wallet provider connects to the wallet
\* and then calls the wallet's own sign primitive, with no can-auto-sign
\* query and no sign URL; with signExternalWithOreId set it takes the
\* service-side path and never calls into the wallet.
C11_WalletSignDelegates ==
  /\ (WalletSign /\ ~fg.signExternalWithOreId) =>
       /\ fg.route = "wallet"
       /\ reqs \cap ServiceSignRequests = {}
       /\ fg.pc = "s_wallet" => fg.conn \in {"loggedIn", "walletOnly"}
       /\ (fg.pc = "exit" /\ fg.outcome = "returned")
            => (fg.value = "signed" /\ walletCalled)
  /\ (WalletSign /\ fg.signExternalWithOreId) =>
       /\ fg.route = "oreid"
       /\ ~walletCalled
       /\ fg.path = "none"
       /\ reqs \subseteq ServiceSignRequests
       /\ (fg.pc = "exit" /\ fg.outcome = "returned")
            => fg.value \in {"autoSigned", "signUrl"}

\* a wallet provider's sign() has returned the wallet's signature
C11_WalletSigned ==
  /\ WalletSign
  /\ ~fg.signExternalWithOreId
  /\ fg.pc = "exit"
  /\ fg.value = "signed"

\* C12: signWithOreId returns an auto-sign result exactly when the
\* can-auto-sign query answered true and preventAutoSign is not set; every
\* other result is a sign URL, reached without a transaction/sign request,
\* also when the query failed or the engine has no serviceKey.
C12_AutoSignOnlyWhenEligible ==
  (fg.op = "sign" /\ fg.route = "oreid") =>
    /\ (fg.pc = "exit" /\ fg.outcome = "returned") =>
         /\ fg.value \in {"autoSigned", "signUrl"}
         /\ fg.value = "autoSigned"
              <=> (fg.canAutoSign = "true" /\ ~fg.preventAutoSign)
    /\ "transaction/sign" \in reqs
         => (fg.canAutoSign = "true" /\ ~fg.preventAutoSign)
    /\ ~cfgServiceKey => (fg.canAutoSign = "none" /\ "transaction/sign" \notin reqs)

\* a sign URL was returned although the query answered true: the caller
\* had set preventAutoSign
C12_OptOutGotSignUrl ==
  /\ fg.op = "sign"
  /\ fg.route = "oreid"
  /\ fg.canAutoSign = "true"
  /\ fg.preventAutoSign
  /\ fg.pc = "exit"
  /\ fg.value = "signUrl"

\* the add-permission requests of the reconcile call in progress
RequestsOfCall == { i \in 1..Len(addRequests) : i > rc.base }

\* C13: when the service refuses the add-permission request of a
\* candidate, the reconcile call ends with an error for its caller, and no
\* request for a later candidate of the batch was issued.
C13_AddFailureAbortsBatch ==
  /\ (rc.pc = "done" /\ RequestsOfCall \cap rejectedAdds # {})
       => rc.err # "none"
  /\ \A i \in RequestsOfCall \cap rejectedAdds :
       \A j \in RequestsOfCall : j <= i

\* C15: in a discover run the user refresh of a credential is issued only
\* when every add-permission request of the earlier credentials of the run
\* has been answered.
C15_CredentialsReconciledInTurn ==
  (rc.caller = "discover" /\ rc.pc = "getUser1") =>
    \A i \in pendingAdds : i <= dr.base

\* C16: the final refresh of a reconcile call is requested only when every
\* add-permission request of the call has been answered, so the user record
\* cached when the call returns holds the permissions the call added.
C16_RefreshAfterAdds ==
  /\ rc.pc = "getUser2" => RequestsOfCall \cap pendingAdds = {}
  /\ (rc.pc = "done" /\ rc.err = "none" /\ RequestsOfCall \cap rejectedAdds = {})
       => \A i \in RequestsOfCall : RequestedRecord(i) \in cachedUser

\* C14: while connectToTransitProvider reads the wallet's state, runs the
\* permission sync or hands its result to the caller, no wallet call of the
\* login loop (discover, login, logout) is outstanding.
C14_NoRetryOutstanding ==
  (fg.path = "connect" /\ fg.pc \in {"c_check", "c_sync", "conn_done"})
    => lt.pc = "none"

\* C17: when "rightacct" is requested and the wallet logs in "wrongacct",
\* the awaited doTransitProviderLogin returns without error, the wallet
\* logged in as "wrongacct" and no further login pending.
C17_ReturnsLoggedInAsWrongAccount ==
  [][(/\ lt.root
      /\ lt.pc = "logout"
      /\ lt.chainAccount = "rightacct"
      /\ fg.pc = "l_await"
      /\ fg'.pc = "l_wait")
     => (/\ fg'.err = "none"
         /\ wallet'.authenticated
         /\ wallet'.auth = "wrongacct"
         /\ lt'.pc = "none")]_vars

\* C18: discover() for a valid provider whose descriptor does not set
\* supportsDiscovery never returns normally.
C18_DiscoverUnsupportedThrows ==
  (/\ fg.op = "discover"
   /\ fg.pc = "exit"
   /\ assertValidProvider(fg.provider)
   /\ ~transitProviderAttributesData[fg.provider].supportsDiscovery)
    => fg.outcome = "threw"

\* C19: in a discover() for a provider whose descriptor sets
\* requiresLogoutLoginToDiscover, whatever its supportsDiscovery, the
\* wallet's logout and login have both completed before the user record is
\* requested.
C19_ReloginBeforePermissionUpdate ==
  (/\ fg.op = "discover"
   /\ assertValidProvider(fg.provider)
   /\ transitProviderAttributesData[fg.provider].requiresLogoutLoginToDiscover
   /\ "account/user" \in reqs)
    => fg.relogin = "done"

\* C20: a setupTransitWallet call for a (provider, chain-network) pair that
\* already had a connected wallet when the call began makes no new wallet
\* object and so calls connect() on none: the step that leaves the context
\* lookup of such a call adds nothing to the wallet objects.
C20_SecondConnectReusesSession ==
  [][\A c \in SessionCallers :
       (sc[c].pc = "initWallet" /\ sc'[c].pc = "connect" /\ sc[c].hadSession)
         => walletObjects' = walletObjects]_vars

\* C21: whatever the interleaving of the set-up calls, no network has more
\* than one access context created for it, and a cache entry that is set is
\* never replaced or removed.
C21_OneContextPerNetwork ==
  /\ [](\A n \in ChainNetworks : contextsCreated[n] <= 1)
  /\ [][\A n \in ChainNetworks :
          transitAccessContexts[n] # 0
            => transitAccessContexts'[n] = transitAccessContexts[n]]_vars

\* C22: a connectToTransitProvider call that has completed without an error
\* returned the logged-in result of a wallet that is authenticated; it never
\* returned normally from a wallet that is connected and not authenticated.
C22_ConnectReturnsLoggedInOrFails ==
  (fg.path = "connect" /\ fg.pc = "conn_done" /\ fg.conn # "threw")
    => (fg.conn = "loggedIn" /\ wallet.authenticated)

\* C23: when the wallet's login() of any attempt of the loop (the first or
\* a retry) ends the attempt, no error is left on a promise nobody awaits,
\* and the error the caller gets is never the raw unknown-key error.
C23_LoginErrorReachesCaller ==
  [][(lt.pc = "login" /\ lt'.pc = "none")
       => (bgRejected' = bgRejected /\ fg'.err # "unknownKey")]_vars

\* C24: every add-permission request sent for a candidate carries the
\* candidate's own parent when it has a non-empty one, and otherwise "" for
\* "owner", "owner" for "active" and "active" for any other name, whatever
\* the state of the engine.
C24_ParentPermissionInferred ==
  [][\A i \in (Len(addRequests) + 1)..Len(addRequests') :
       \E k \in 1..Len(rc.walletPermissions) :
         LET p == rc.walletPermissions[k]
             r == addRequests'[i]
         IN /\ p.name = r.permission
            /\ p.publicKey = r.publicKey
            /\ r.parentPermission =
                 IF p.parent # "" THEN p.parent
                 ELSE CASE p.name = "owner" -> ""
                        [] p.name = "active" -> "owner"
                        [] OTHER -> "active"]_addRequests

\* requests were sent with a kept parent, with each inferred parent
C24_EveryParentCaseSent ==
  /\ \E i \in 1..Len(addRequests) :
       addRequests[i].permission = "custom" /\ addRequests[i].parentPermission = "owner"
  /\ \E i \in 1..Len(addRequests) :
       addRequests[i].permission = "custom" /\ addRequests[i].parentPermission = "active"
  /\ \E i \in 1..Len(addRequests) :
       addRequests[i].permission = "active" /\ addRequests[i].parentPermission = "owner"

\* C25: a reconcile call with one candidate that is not "owner" and has no
\* record for (chainAccount, chainNetwork, permission) in the fetched user
\* record sends exactly one add-permission request, made of the call's
\* identity account, chain account, chain network, the candidate's public
\* key, the inferred parent ("owner" for "active"), the permission name and
\* the call's provider; a call sends requests at no other step.
C25_OneCandidateOneRequest ==
  /\ [][(/\ rc.pc = "getUser1"
         /\ rc'.pc = "getUser2"
         /\ Len(rc.walletPermissions) = 1
         /\ rc.walletPermissions[1].name # "owner"
         /\ PermissionRecord(rc.chainAccount, rc.chainNetwork,
                             rc.walletPermissions[1].name) \notin serverPerms)
          => addRequests' = Append(addRequests,
               [account |-> rc.oreAccount, chainAccount |-> rc.chainAccount,
                chainNetwork |-> rc.chainNetwork,
                publicKey |-> rc.walletPermissions[1].publicKey,
                parentPermission |->
                  IF rc.walletPermissions[1].parent # ""
                    THEN rc.walletPermissions[1].parent
                    ELSE IF rc.walletPermissions[1].name = "active"
                           THEN "owner" ELSE "active",
                permission |-> rc.walletPermissions[1].name,
                provider |-> rc.provider])]_<<rc, addRequests>>
  /\ [][rc.pc = "getUser1"]_addRequests

\* the call reconcile("acct1", "eos_main", [active/PUB1], "idacct",
\* "scatter") has sent its one request, with parent "owner"
C25_ActiveRequestSent ==
  /\ rc.pc = "getUser2"
  /\ rc.provider = "scatter"
  /\ rc.walletPermissions = << Candidate("active", "PUB1", "") >>
  /\ Len(addRequests) = rc.base + 1
  /\ addRequests[Len(addRequests)] =
       [account |-> "idacct", chainAccount |-> "acct1", chainNetwork |-> "eos_main",
        publicKey |-> "PUB1", parentPermission |-> "owner", permission |-> "active",
        provider |-> "scatter"]

\* a reconcile call is under way whose identity account, candidate list or
\* chain network is empty
EmptyReconcileCall ==
  /\ rc.pc # "idle"
  /\ rc.oreAccount = "" \/ Len(rc.walletPermissions) = 0 \/ rc.chainNetwork = ""

\* C26: a reconcile call with an empty identity account, candidate list or
\* chain network never waits for a user fetch or a refresh, sends no
\* add-permission request and ends without an error, and no step from its
\* start to its return changes the cached user record.
C26_EmptyCallIsNoOp ==
  /\ [](EmptyReconcileCall
          => (rc.pc = "done" /\ rc.err = "none" /\ Len(addRequests) = rc.base))
  /\ [][(EmptyReconcileCall \/ EmptyReconcileCall')
          => cachedUser' = cachedUser]_<<rc, addRequests, pendingAdds>>

\* a call with an empty chain network has returned on an engine whose
\* earlier call fetched the user record and sent requests
C26_EmptyNetworkCallDone ==
  /\ rc.pc = "done"
  /\ rc.chainNetwork = ""
  /\ rc.oreAccount # ""
  /\ Len(rc.walletPermissions) > 0
  /\ Len(addRequests) > 0

\* C27: whatever a signing path sends to the identity service carries one
\* base64 layer more than what the caller passed, and a signed transaction
\* received from the service has had base64 decoding applied exactly once
\* when the operation returns it.
C27_OneEncodeOneDecode ==
  /\ sg.bodyTransaction # Absent
       => sg.bodyTransaction.layers = sg.transaction.layers + 1
  /\ sg.bodySigned # Absent
       => sg.bodySigned.layers = sg.signedTransaction.layers + 1
  /\ (sg.pc = "done" /\ sg.outcome = "returned" /\ sg.received # Absent)
       => (sg.decodes = 1 /\ sg.result.layers = sg.received.layers - 1)

C29_NoCredentialsNoRequest ==
  [][(/\ api.pc = "idle"
      /\ api'.pc # "idle"
      /\ ~cfgApiKey
      /\ ~storedAccessToken
      /\ ~api'.overrideAccessToken
      /\ api'.endpoint \notin publicApiEndpoints)
       => (/\ api'.pc = "done"
           /\ api'.outcome = "needsCredentials"
           /\ httpRequests' = httpRequests)]_<<api, httpRequests>>

\* a call without credentials was refused, after an earlier call with a
\* stored access token had sent its request
C29_RefusedWithoutCredentials ==
  /\ api.pc = "done"
  /\ api.outcome = "needsCredentials"
  /\ api.endpoint = "account/user"
  /\ ~cfgApiKey
  /\ httpRequests = 1
  /\ apiCalls = 2

\* C30: at the point where connectToTransitProvider has the connected
\* wallet, the login loop is started exactly when the provider's descriptor
\* has requiresLogin and the wallet is not authenticated; and for a connect
\* where that was not so, the wallet's login() is never called and no
\* login, logout or discover of the loop is ever outstanding.
C30_LoginLoopExactlyWhenNeeded ==
  /\ [][(fg.pc = "c_afterSetup" /\ fg'.pc # "c_afterSetup")
          => ((lt'.pc # "none")
                <=> (/\ transitProviderAttributesData[fg.provider].requiresLogin
                     /\ ~wallet.authenticated))]_fg
  /\ [](/\ fg.path = "connect"
        /\ fg.authAfterConnect # "none"
        /\ \/ ~transitProviderAttributesData[fg.provider].requiresLogin
           \/ fg.authAfterConnect = "yes"
        => (loginCalls = 0 /\ lt.pc = "none"))

\* a connect for a provider that requires login has ended without the loop,
\* the wallet having come back from connect() authenticated
C30_AuthenticatedConnectSkippedLogin ==
  /\ fg.path = "connect"
  /\ fg.pc = "conn_done"
  /\ fg.conn = "loggedIn"
  /\ transitProviderAttributesData[fg.provider].requiresLogin
  /\ fg.authAfterConnect = "yes"
  /\ loginCalls = 0

\* C31: the loop calls wallet.logout() only on the return of a login that
\* left an account active other than a requested, non-empty one; and a first
\* login that yields the requested account, or any account when none was
\* requested, ends the loop with one login call made and no logout.
C31_LogoutOnlyAfterMismatch ==
  /\ [][(lt'.pc = "logout" /\ lt.pc # "logout")
          => (/\ lt.pc = "login"
              /\ lt.chainAccount # "none"
              /\ wallet'.authenticated
              /\ wallet'.auth # lt.chainAccount)]_<<lt, wallet>>
  /\ [][(/\ lt.pc = "login"
         /\ lt.root
         /\ wallet'.authenticated
         /\ lt.chainAccount = "none" \/ wallet'.auth = lt.chainAccount)
          => (lt'.pc = "none" /\ loginCalls' = 1)]_<<lt, wallet>>

\* the loop of a connect that asked for "rightacct" has ended after one
\* login, the wallet logged in as "rightacct"
C31_FirstLoginMatched ==
  /\ fg.path = "connect"
  /\ fg.pc = "l_wait"
  /\ fg.chainAccount = "rightacct"
  /\ lt.pc = "none"
  /\ loginCalls = 1
  /\ wallet.auth = "rightacct"

\* C32: when the discover() of an attempt of the loop has resolved with a key
\* map in which no key lists the requested account, the attempt ends without
\* a wallet.login() call and the loop's caller gets the account-not-found
\* error.
C32_AccountNotFoundFailsLoop ==
  [][(/\ lt.pc = "discovered"
      /\ lt'.pc # "discovered"
      /\ \A i \in 1..Len(lt.discoveryData) :
           \A k \in 1..Len(lt.discoveryData[i].accounts) :
             lt.discoveryData[i].accounts[k].account # lt.chainAccount)
       => (/\ lt'.pc = "none"
           /\ loginCalls' = loginCalls
           /\ fg'.err = "AccountNotFound")]_<<lt, fg, loginCalls>>

\* the provider's default discovery index range, <<>> when it has none
ProviderDefaultRange(provider) ==
  transitProviderAttributesData[provider].defaultDiscoveryPathIndexList

\* C33: whenever a discovery call has invoked the wallet's discover(), the
\* index range it sent is the caller's range when that is not empty and the
\* provider's default range otherwise, for every provider.
C33_CallerRangeSent ==
  (dc.pc \in {"discover", "loop", "reconcile"}) =>
    dc.pathIndexList =
      (IF dc.discoveryPathIndexList # <<>>
         THEN dc.discoveryPathIndexList
         ELSE ProviderDefaultRange(dc.provider))

\* C33 as the code has it: the caller's range is sent only when it is not
\* empty and the provider has a default range; in every other case the
\* provider's default range is sent, which is empty for a provider without
\* one.
C33_CallerRangeSentIfDefault ==
  (dc.pc \in {"discover", "loop", "reconcile"}) =>
    dc.pathIndexList =
      (IF dc.discoveryPathIndexList # <<>> /\ ProviderDefaultRange(dc.provider) # <<>>
         THEN dc.discoveryPathIndexList
         ELSE ProviderDefaultRange(dc.provider))

\* the wallet's discover() was called with the caller's range <<2>> for a
\* provider that has a default range
C33_CallerRangeForProviderWithDefault ==
  /\ dc.pc = "discover"
  /\ dc.discoveryPathIndexList = <<2>>
  /\ ProviderDefaultRange(dc.provider) # <<>>
  /\ dc.pathIndexList = <<2>>

\* the keys of a key map that list at least one account, in map order
KeysWithAccounts(keyToAccountMap) ==
  SelectSeq(keyToAccountMap, LAMBDA credential : Len(credential.accounts) >= 1)

C35_EarlierAddsCompleted ==
  [][(/\ rc.caller = "discover"
      /\ rc.pc = "done"
      /\ rc.err # "none"
      /\ rc'.pc = "idle")
       => (/\ dr'.pc = "idle"
           /\ ~dr'.prevOk
           /\ \A i \in (dr.base + 1)..rc.base : i \notin pendingAdds)]_<<rc, dr>>

\* C36: add-permission requests are issued only by a reconcile call whose
\* forced refresh of the user record has been requested and answered, and
\* the requests issued are those of the candidates not skipped against the
\* record the service held at that refresh, whatever list was cached before.
\* Holds of the current engine (SpecReconcileCall), fails of the older copy
\* (SpecReconcileOlder).
C36_SkipUsesRefreshedUser ==
  [][Len(addRequests') > Len(addRequests)
       => (/\ rc.pc = "getUser1"
           /\ rc'.pc = "getUser2"
           /\ SubSeq(addRequests', Len(addRequests) + 1, Len(addRequests'))
                = addPermissionCalls(serverPerms, rc.chainAccount,
                                     rc.chainNetwork, rc.walletPermissions,
                                     rc.oreAccount, rc.provider))]_addRequests

\* C37: when every wallet call returns, every run of the login loop, its
\* retries included, comes to an end: a live doTransitProviderLogin call is
\* always followed by a state with none, whatever the wallet answers.
C37_LoginLoopEnds ==
  (lt.pc # "none") ~> (lt.pc = "none")

\* the last retry the loop allows has its login() outstanding
C37_LastRetryRunning ==
  /\ lt.pc = "login"
  /\ lt.retryCount = 3

\* the positions at which waitWhileWalletIsBusy is running
InBusyPoll == fg.pc \in {"t_wait", "l_wait"}

UalInstalledNamed(provider) ==
  \E k \in 1..Len(ualNames) : toLowerCase(ualNames[k]) = toLowerCase(provider)

\* C39: for every provider name and every installed list, the two tests
\* never both answer yes; and a name in both enumerations is a UAL provider
\* exactly when a UAL provider of that name, compared without case, is
\* installed, and a Transit provider exactly when none is.
C39_NeverBothFamilies ==
  (cls.pc = "done") =>
    /\ ~(cls.ual /\ cls.transit)
    /\ (cls.provider \in supportedUALNames \cap supportedTransitNames)
         => /\ cls.ual <=> UalInstalledNamed(cls.provider)
            /\ cls.transit <=> ~UalInstalledNamed(cls.provider)

\* the name "s" of both enumerations was classified with the UAL provider
\* "S" installed
C39_ClassifiedAgainstOtherCase ==
  /\ cls.pc = "done"
  /\ cls.provider = <<"s">>
  /\ ualNames = << <<"S">> >>
  /\ cls.ual
  /\ ~cls.transit

\* C40: whatever the interleaving of init() calls on one instance of the
\* newer engine, a second call started before the first has completed
\* included, the popup plug-in's init is invoked at most once.
C40_PluginInitAtMostOnce ==
  popupInits <= 1

====
